---- MODULE Spec2Model ----
(***************************************************************************)
(* Model of the Monte Carlo projection core of FinanceMgmt:                *)
(*   backend/simulation/engine.py        reference engine                  *)
(*   backend/simulation/engine_fast.py   array ("fast") engine             *)
(*   backend/simulation/array_scenario.py, returns_cache.py, tax/*,        *)
(*   entities/*                                                            *)
(*                                                                         *)
(* Numbers.  The program computes in float64.  The model computes in       *)
(* fixed point: money is an integer number of pence, a rate or a return    *)
(* is an integer number of percent, and every product with a rate and      *)
(* every quotient is rounded down (MulDiv).  A Python None is the empty    *)
(* sequence and a present value v is <<v>>.  A dict is a sequence of       *)
(* [key, value] records in insertion order.                                *)
(***************************************************************************)
EXTENDS Integers, Sequences, FiniteSets, TLC

---------------------------------------------------------------------------
(* Arithmetic helpers *)

None == <<>>

Some(v) == <<v>>

IsNone(o) == o = <<>>

Val(o) == o[1]

Min(a, b) == IF a <= b THEN a ELSE b

Max(a, b) == IF a >= b THEN a ELSE b

Min3(a, b, c) == Min(a, Min(b, c))

Abs(a) == IF a < 0 THEN -a ELSE a

\* the value of body at v, with v computed once: a local variable of the code
\* (v, then the code that reads it)
Let(v, body(_)) == CHOOSE r \in {body(x) : x \in {v}} : TRUE

\* <<q, r>> with a * b = q * c + r and 0 <= r < c, for a, b >= 0, c > 0,
\* computed without forming a product that leaves the integer range
RECURSIVE MulDivRem(_, _, _)
MulDivRem(a, b, c) ==
    IF a = 0 \/ b = 0 THEN <<0, 0>>
    ELSE IF a <= 2147483647 \div b THEN <<(a * b) \div c, (a * b) % c>>
    ELSE Let(MulDivRem(a % c, b \div 2, c), LAMBDA h :
         Let(2 * h[2] + (b % 2) * (a % c), LAMBDA t :
         <<(a \div c) * b + 2 * h[1] + (t \div c), t % c>>))

\* floor(a * b / c) for integers a, b of either sign and c > 0
MulDiv(a, b, c) ==
    Let(MulDivRem(Abs(a), Abs(b), c), LAMBDA qr :
    IF (a >= 0) = (b >= 0) THEN qr[1]
    ELSE IF qr[2] = 0 THEN -qr[1] ELSE -qr[1] - 1)

\* x * (r percent), rounded down
Pct(x, r) == MulDiv(x, r, 100)

\* pounds to pence
Pounds(x) == x * 100

RECURSIVE SumSeq(_)
SumSeq(s) == Let(s, LAMBDA t : IF t = <<>> THEN 0 ELSE t[1] + SumSeq(Tail(t)))

\* the sequence  <<f(s[1]), ..., f(s[n])>>
MapSeq(f(_), s) == Let(s, LAMBDA t : [i \in 1..Len(t) |-> f(t[i])])

\* the subsequence of s of the elements that satisfy keep
RECURSIVE FilterSeq(_, _)
FilterSeq(keep(_), s) ==
    Let(s, LAMBDA t :
    IF t = <<>> THEN <<>>
    ELSE IF keep(t[1]) THEN <<t[1]>> \o FilterSeq(keep, Tail(t))
    ELSE FilterSeq(keep, Tail(t)))

Range(s) == {s[i] : i \in 1..Len(s)}

\* the concatenation of a sequence of sequences
RECURSIVE Flatten(_)
Flatten(ss) == Let(ss, LAMBDA t : IF t = <<>> THEN <<>> ELSE t[1] \o Flatten(Tail(t)))

---------------------------------------------------------------------------
(* Tax primitives: backend/simulation/tax *)

\* IncomeTaxBands defaults (pence, percent)
IncomeTaxBands ==
    [personal_allowance |-> Pounds(12570),
     basic_rate_limit   |-> Pounds(50270),
     higher_rate_limit  |-> Pounds(125140),
     basic_rate         |-> 20,
     higher_rate        |-> 40,
     additional_rate    |-> 45]

\* NationalInsuranceBands defaults
NationalInsuranceBands ==
    [primary_threshold    |-> Pounds(12570),
     upper_earnings_limit |-> Pounds(50270),
     main_rate            |-> 8,
     upper_rate           |-> 2]

\* a slab tax: the whole income above the allowance is taxed at the rate of the
\* band the income ends in
calculate_income_tax_slab(taxable_income, bands) ==
    IF taxable_income <= bands.personal_allowance THEN 0
    ELSE Pct(taxable_income - bands.personal_allowance,
             IF taxable_income <= bands.basic_rate_limit THEN bands.basic_rate
             ELSE IF taxable_income <= bands.higher_rate_limit THEN bands.higher_rate
             ELSE bands.additional_rate)

\* calculate_income_tax
calculate_income_tax(taxable_income, bands) ==
    IF taxable_income <= 0 THEN 0
    ELSE
    LET allowance   == Min(taxable_income, bands.personal_allowance)
        basic_band  == Max(0, bands.basic_rate_limit - bands.personal_allowance)
        higher_band == Max(0, bands.higher_rate_limit - bands.basic_rate_limit)
    IN
    Let(taxable_income - allowance, LAMBDA remaining1 :
    Let(Min(remaining1, basic_band), LAMBDA basic_amount :
    Let(remaining1 - basic_amount, LAMBDA remaining2 :
    Let(Min(remaining2, higher_band), LAMBDA higher_amount :
    LET tax1       == Pct(basic_amount, bands.basic_rate)
        tax2       == tax1 + Pct(higher_amount, bands.higher_rate)
        remaining3 == remaining2 - higher_amount
    IN  IF remaining1 <= 0 THEN 0
        ELSE IF remaining2 <= 0 THEN tax1
        ELSE IF remaining3 <= 0 THEN tax2
        ELSE tax2 + Pct(remaining3, bands.additional_rate)))))

calculate_ni_class1(gross_annual, bands) ==
    IF gross_annual <= bands.primary_threshold THEN 0
    ELSE Let(Min(gross_annual, bands.upper_earnings_limit) - bands.primary_threshold,
             LAMBDA main_amount :
         Let(Max(0, gross_annual - bands.upper_earnings_limit), LAMBDA upper_amount :
         Pct(main_amount, bands.main_rate) + Pct(upper_amount, bands.upper_rate)))

apply_pension_contribution_relief(employee_contribution) ==
    Max(0, employee_contribution)

\* a calculate_for_salary that charges National Insurance on the taxable income
calculate_for_salary_ni_on_taxable(gross_salary, employee_pension_contribution) ==
    Let(Max(0, gross_salary - Max(0, employee_pension_contribution)), LAMBDA taxable_income :
    Let(calculate_income_tax(taxable_income, IncomeTaxBands), LAMBDA income_tax :
    Let(calculate_ni_class1(taxable_income, NationalInsuranceBands), LAMBDA national_insurance :
    [taxable_income     |-> taxable_income,
     income_tax         |-> income_tax,
     national_insurance |-> national_insurance,
     total_tax          |-> income_tax + national_insurance])))

\* TaxCalculator.calculate_for_salary
calculate_for_salary(gross_salary, employee_pension_contribution) ==
    Let(apply_pension_contribution_relief(employee_pension_contribution),
        LAMBDA pension_relief :
    Let(Max(0, gross_salary - pension_relief), LAMBDA taxable_income :
    Let(calculate_income_tax(taxable_income, IncomeTaxBands), LAMBDA income_tax :
    Let(calculate_ni_class1(gross_salary, NationalInsuranceBands), LAMBDA national_insurance :
    [taxable_income     |-> taxable_income,
     income_tax         |-> income_tax,
     national_insurance |-> national_insurance,
     total_tax          |-> income_tax + national_insurance]))))

\* TaxCalculator.calculate_income_tax_on_additional_income
calculate_income_tax_on_additional_income(base_taxable_income, additional_income) ==
    IF additional_income <= 0 THEN 0
    ELSE calculate_income_tax(Max(0, base_taxable_income + additional_income), IncomeTaxBands)
         - calculate_income_tax(Max(0, base_taxable_income), IncomeTaxBands)

calculate_tax_free_withdrawal(requested, balance) ==
    IF requested <= 0 \/ balance <= 0
    THEN [gross_withdrawal |-> 0, tax_paid |-> 0, net_withdrawal |-> 0]
    ELSE Let(Min(balance, requested), LAMBDA gross :
         [gross_withdrawal |-> gross, tax_paid |-> 0, net_withdrawal |-> gross])

\* a calculate_gia_withdrawal without "gross = min(balance, requested)": the whole
\* request is paid out whatever the balance
calculate_gia_withdrawal_uncapped(requested, balance, cost_basis, cgt_allowance_remaining, cgt_rate) ==
    [gross_withdrawal |-> requested, tax_paid |-> 0, net_withdrawal |-> requested,
     gains_realized |-> 0, cgt_allowance_used |-> 0,
     cgt_allowance_remaining |-> Max(0, cgt_allowance_remaining)]

\* a calculate_gia_withdrawal that uses the allowance without lowering it
calculate_gia_withdrawal_allowance_kept(requested, balance, cost_basis, cgt_allowance_remaining, cgt_rate) ==
    IF requested <= 0 \/ balance <= 0
    THEN [gross_withdrawal |-> 0, tax_paid |-> 0, net_withdrawal |-> 0,
          gains_realized |-> 0, cgt_allowance_used |-> 0,
          cgt_allowance_remaining |-> Max(0, cgt_allowance_remaining)]
    ELSE
    Let(Min(balance, requested), LAMBDA gross :
    Let(MulDiv(gross, Max(0, Max(0, balance) - Max(0, cost_basis)), Max(0, balance)),
        LAMBDA gains_realized :
    Let(Max(0, gains_realized - Min(Max(0, cgt_allowance_remaining), gains_realized)),
        LAMBDA taxable_gains :
    Let(Pct(taxable_gains, Max(0, cgt_rate)), LAMBDA tax_paid :
    [gross_withdrawal |-> gross, tax_paid |-> tax_paid,
     net_withdrawal |-> gross - tax_paid,
     gains_realized |-> gains_realized,
     cgt_allowance_used |-> 0,
     cgt_allowance_remaining |-> Max(0, cgt_allowance_remaining)]))))

calculate_gia_withdrawal(requested, balance, cost_basis, cgt_allowance_remaining, cgt_rate) ==
    IF requested <= 0 \/ balance <= 0
    THEN [gross_withdrawal |-> 0, tax_paid |-> 0, net_withdrawal |-> 0,
          gains_realized |-> 0, cgt_allowance_used |-> 0,
          cgt_allowance_remaining |-> Max(0, cgt_allowance_remaining)]
    ELSE
    Let(Min(balance, requested), LAMBDA gross :
    Let(Max(0, balance), LAMBDA safe_balance :
    Let(Max(0, cost_basis), LAMBDA safe_cost_basis :
    Let(Max(0, safe_balance - safe_cost_basis), LAMBDA total_gains :
    \* gross * gains_ratio, gains_ratio = total_gains / safe_balance
    Let(IF safe_balance > 0 THEN MulDiv(gross, total_gains, safe_balance) ELSE 0,
        LAMBDA gains_realized :
    Let(Max(0, cgt_allowance_remaining), LAMBDA allowance_remaining :
    Let(Min(allowance_remaining, gains_realized), LAMBDA allowance_used :
    Let(Max(0, gains_realized - allowance_used), LAMBDA taxable_gains :
    Let(Pct(taxable_gains, Max(0, cgt_rate)), LAMBDA tax_paid :
    [gross_withdrawal |-> gross, tax_paid |-> tax_paid,
     net_withdrawal |-> gross - tax_paid,
     gains_realized |-> gains_realized,
     cgt_allowance_used |-> allowance_used,
     cgt_allowance_remaining |-> allowance_remaining - allowance_used])))))))))

\* backend/simulation/tax/pension_drawdown.py: _solve_taxable_amount.
\* net_per_taxable = 4/3 - rate = (400 - 3 * rate) / 300 with the rate in percent.
\* The loop over band_limits is unrolled by the band index idx = 1..3.
RECURSIVE solve_taxable_bands(_, _, _, _, _, _)
solve_taxable_bands(idx, bands, previous_limit, current_income, remaining_net, taxable_needed) ==
    IF idx > 3
    THEN \* additional rate band (no upper limit)
         LET npt == 400 - 3 * bands.additional_rate
         IN  IF npt <= 0 THEN taxable_needed
             ELSE taxable_needed + MulDiv(remaining_net, 300, npt)
    ELSE
    LET band_end == CASE idx = 1 -> bands.personal_allowance
                      [] idx = 2 -> bands.basic_rate_limit
                      [] OTHER   -> bands.higher_rate_limit
        rate     == CASE idx = 1 -> 0
                      [] idx = 2 -> bands.basic_rate
                      [] OTHER   -> bands.higher_rate
        band_start == previous_limit
        npt        == 400 - 3 * rate
    IN
    Let(band_end - Max(current_income, band_start), LAMBDA available :
    Let(MulDiv(available, npt, 300), LAMBDA net_available :
    IF current_income >= band_end \/ available <= 0
    THEN solve_taxable_bands(idx + 1, bands, band_end, current_income,
                             remaining_net, taxable_needed)
    ELSE IF remaining_net <= net_available
    THEN taxable_needed + MulDiv(remaining_net, 300, npt)
    ELSE Let([remaining_net |-> remaining_net - net_available,
              taxable_needed |-> taxable_needed + available,
              band_end |-> band_end], LAMBDA after :
         solve_taxable_bands(idx + 1, bands, after.band_end, after.band_end,
                             after.remaining_net, after.taxable_needed))))

solve_taxable_amount(target_net_income, other_taxable_income, bands) ==
    IF target_net_income <= 0 THEN 0
    ELSE Let(Max(0, other_taxable_income), LAMBDA current_income :
         solve_taxable_bands(1, bands, 0, current_income, target_net_income, 0))

\* the solve without the cap at the balance
solve_gross_withdrawal_uncapped(target_net_income, other_taxable_income, pension_balance, bands) ==
    Let(solve_taxable_amount(target_net_income, other_taxable_income, bands),
        LAMBDA taxable_target :
    IF taxable_target > 0 THEN MulDiv(taxable_target, 4, 3) ELSE 0)

\* _solve_gross_withdrawal: gross = taxable / 0.75, capped at the balance
solve_gross_withdrawal(target_net_income, other_taxable_income, pension_balance, bands) ==
    Let(solve_taxable_amount(target_net_income, other_taxable_income, bands),
        LAMBDA taxable_target :
    Let(IF taxable_target > 0 THEN MulDiv(taxable_target, 4, 3) ELSE 0, LAMBDA gross :
    Min(gross, pension_balance)))

\* _calculate_for_gross
calculate_for_gross(gross_withdrawal, other_taxable_income, bands) ==
    Let(MulDiv(gross_withdrawal, 1, 4), LAMBDA tax_free_amount :
    Let(MulDiv(gross_withdrawal, 3, 4), LAMBDA taxable_amount :
    Let(calculate_income_tax(other_taxable_income + taxable_amount, bands), LAMBDA total_tax :
    Let(calculate_income_tax(other_taxable_income, bands), LAMBDA tax_on_other :
    Let(total_tax - tax_on_other, LAMBDA pension_tax :
    [gross_withdrawal |-> gross_withdrawal,
     tax_free_amount  |-> tax_free_amount,
     taxable_amount   |-> taxable_amount,
     tax_paid         |-> pension_tax,
     net_income       |-> gross_withdrawal - pension_tax])))))

calculate_pension_drawdown(target_net_income, other_taxable_income, pension_balance) ==
    IF target_net_income <= 0 \/ pension_balance <= 0
    THEN [gross_withdrawal |-> 0, tax_free_amount |-> 0, taxable_amount |-> 0,
          tax_paid |-> 0, net_income |-> 0]
    ELSE Let(solve_gross_withdrawal(target_net_income, other_taxable_income,
                                    pension_balance, IncomeTaxBands), LAMBDA gross :
         calculate_for_gross(gross, other_taxable_income, IncomeTaxBands))

---------------------------------------------------------------------------
(* Numerical helpers of the fast engine: backend/simulation/engine_fast.py *)

\* _calculate_income_tax: the banding over the module constants
\* PERSONAL_ALLOWANCE, BASIC_RATE_LIMIT, HIGHER_RATE_LIMIT and the three rates
fast_tax_constants ==
    [personal_allowance |-> Pounds(12570),
     basic_rate_limit   |-> Pounds(50270),
     higher_rate_limit  |-> Pounds(125140),
     basic_rate         |-> 20,
     higher_rate        |-> 40,
     additional_rate    |-> 45]

fast_calculate_income_tax(taxable_income) ==
    LET c == fast_tax_constants
        allowance   == Min(taxable_income, c.personal_allowance)
        basic_band  == Max(0, c.basic_rate_limit - c.personal_allowance)
        higher_band == Max(0, c.higher_rate_limit - c.basic_rate_limit)
    IN
    Let(taxable_income - allowance, LAMBDA remaining1 :
    Let(Min(remaining1, basic_band), LAMBDA basic_amount :
    Let(remaining1 - basic_amount, LAMBDA remaining2 :
    Let(Min(remaining2, higher_band), LAMBDA higher_amount :
    LET tax1       == Pct(basic_amount, c.basic_rate)
        tax2       == tax1 + Pct(higher_amount, c.higher_rate)
        remaining3 == remaining2 - higher_amount
    IN  IF taxable_income <= 0 THEN 0
        ELSE IF remaining1 <= 0 THEN 0
        ELSE IF remaining2 <= 0 THEN tax1
        ELSE IF remaining3 <= 0 THEN tax2
        ELSE tax2 + Pct(remaining3, c.additional_rate)))))

\* _calculate_ni over NI_PRIMARY_THRESHOLD, NI_UPPER_LIMIT, NI_MAIN_RATE, NI_UPPER_RATE
fast_calculate_ni(gross_annual) ==
    IF gross_annual <= Pounds(12570) THEN 0
    ELSE Pct(Min(gross_annual, Pounds(50270)) - Pounds(12570), 8)
         + Pct(Max(0, gross_annual - Pounds(50270)), 2)

\* the body of the bisection loop of _calculate_pension_drawdown for one midpoint
fast_drawdown_at(gross, other_taxable) ==
    LET taxable == MulDiv(gross, 3, 4)
    IN  Let(fast_calculate_income_tax(other_taxable + taxable)
            - fast_calculate_income_tax(other_taxable), LAMBDA pension_tax :
        [gross |-> gross, tax |-> pension_tax, net |-> gross - pension_tax])

\* the number of halvings of _calculate_pension_drawdown: for _ in range(20)
BisectionSteps == 20

\* the loop: k halvings left; last is the result of the previous midpoint.
\* abs(net - target_net) < 0.01 is, in whole pence, net = target_net.
RECURSIVE fast_bisect(_, _, _, _, _, _)
fast_bisect(k, low, high, target_net, other_taxable, last) ==
    IF k = 0 THEN last
    ELSE Let(fast_drawdown_at((low + high) \div 2, other_taxable), LAMBDA cur :
         IF cur.net = target_net THEN cur
         ELSE IF cur.net < target_net
         THEN fast_bisect(k - 1, cur.gross, high, target_net, other_taxable, cur)
         ELSE fast_bisect(k - 1, low, cur.gross, target_net, other_taxable, cur))

\* _calculate_pension_drawdown: (gross_withdrawal, tax_paid, net_income)
fast_calculate_pension_drawdown(target_net, other_taxable, pension_balance) ==
    IF target_net <= 0 \/ pension_balance <= 0
    THEN [gross |-> 0, tax |-> 0, net |-> 0]
    ELSE Let(fast_bisect(BisectionSteps, 0, Min(pension_balance, target_net * 2),
                         target_net, other_taxable,
                         [gross |-> 0, tax |-> 0, net |-> 0]), LAMBDA res :
         IF res.gross > pension_balance
         THEN fast_drawdown_at(pension_balance, other_taxable)
         ELSE res)

\* _step_mortgage: twelve monthly sub-steps; <<new_balance, payment_made>>
RECURSIVE fast_mortgage_months(_, _, _, _, _)
fast_mortgage_months(k, balance, annual_rate, monthly_payment, payment_total) ==
    IF k = 0 \/ balance <= 0 THEN <<balance, payment_total>>
    ELSE LET interest == MulDiv(balance, annual_rate, 1200)
             payment  == Min(monthly_payment, balance + interest)
         IN  Let(<<Max(0, balance + interest - payment), payment_total + payment>>,
                 LAMBDA after :
             fast_mortgage_months(k - 1, after[1], annual_rate, monthly_payment, after[2]))

step_mortgage(balance, annual_rate, monthly_payment) ==
    IF balance <= 0 THEN <<0, 0>>
    ELSE fast_mortgage_months(12, balance, annual_rate, monthly_payment, 0)

---------------------------------------------------------------------------
(* Entities: backend/simulation/entities *)

\* dict.get(key): the value stored under key, or None
RECURSIVE DictGet(_, _)
DictGet(d, key) ==
    Let(d, LAMBDA t :
    IF t = <<>> THEN None
    ELSE IF t[1].key = key THEN Some(t[1].value)
    ELSE DictGet(Tail(t), key))

DictKeys(d) == {d[i].key : i \in 1..Len(d)}

\* PersonEntity.age_in_year
age_in_year(person, year) == year - person.birth_year

\* nobody is ever retired
never_retired_in_year(person, year) == FALSE

\* PersonEntity.is_retired_in_year
is_retired_in_year(person, year) ==
    IF person.is_child \/ IsNone(person.planned_retirement_age) THEN FALSE
    ELSE age_in_year(person, year) >= Val(person.planned_retirement_age)

\* PersonEntity.is_state_pension_eligible_in_year
is_state_pension_eligible_in_year(person, year) ==
    IF person.is_child \/ IsNone(person.state_pension_age) THEN FALSE
    ELSE age_in_year(person, year) >= Val(person.state_pension_age)

\* PersonEntity.can_access_pension_in_year
can_access_pension_in_year(person, year, min_access_age) ==
    IF person.is_child THEN FALSE
    ELSE age_in_year(person, year) >= min_access_age

\* the [start_year, end_year] test shared by SalaryIncome, RentalIncome, GiftIncome
in_window(income, year) ==
    /\ ~(~IsNone(income.start_year) /\ year < Val(income.start_year))
    /\ ~(~IsNone(income.end_year) /\ year > Val(income.end_year))

\* SalaryIncome.step
SalaryStep(salary, year) ==
    IF ~in_window(salary, year)
    THEN [salary EXCEPT !.salary_gross = 0, !.pension_contributions = 0]
    ELSE Let(salary.gross_annual + Pct(salary.gross_annual, salary.annual_growth_rate),
             LAMBDA g :
         [salary EXCEPT !.gross_annual = g,
                        !.salary_gross = g,
                        !.pension_contributions =
                            Pct(g, salary.employee_pension_pct + salary.employer_pension_pct)])

\* RentalIncome.step and GiftIncome.step (the two have the same body)
IncomeStep(income, year) ==
    IF ~in_window(income, year)
    THEN [income EXCEPT !.income_gross = 0]
    ELSE Let(income.gross_annual + Pct(income.gross_annual, income.annual_growth_rate),
             LAMBDA g :
         [income EXCEPT !.gross_annual = g, !.income_gross = g])

\* an ExpenseItem.step that inflates first and spends the inflated amount
ExpenseStepGrowthFirst(expense, inflation_rate) ==
    Let(IF expense.is_inflation_linked
        THEN expense.annual_amount + Pct(expense.annual_amount, inflation_rate)
        ELSE expense.annual_amount, LAMBDA amount :
    [expense EXCEPT !.annual_spend = amount, !.annual_amount = amount])

\* ExpenseItem.step: spend at the current amount, then inflate for next year
ExpenseStep(expense, inflation_rate) ==
    [expense EXCEPT !.annual_spend = expense.annual_amount,
                    !.annual_amount = IF expense.is_inflation_linked
                                      THEN expense.annual_amount
                                           + Pct(expense.annual_amount, inflation_rate)
                                      ELSE expense.annual_amount]

\* AssetAccount.begin_year
AssetBeginYear(asset) ==
    [asset EXCEPT !.investment_return = 0, !.contribution_made = 0,
                  !.withdrawals = 0, !.deposits = 0]

\* AssetAccount.deposit
AssetDeposit(asset, amount) ==
    IF amount <= 0 THEN asset
    ELSE [asset EXCEPT !.deposits = @ + amount,
                       !.contribution_made = @ + amount,
                       !.balance = @ + amount,
                       !.cost_basis = @ + amount]

\* AssetAccount.withdraw
AssetWithdraw(asset, amount) ==
    IF amount <= 0 \/ asset.balance <= 0 THEN asset
    ELSE Let(asset.balance, LAMBDA starting_balance :
         Let(Min(starting_balance, amount), LAMBDA withdrawn :
         Let(IF starting_balance > 0 /\ asset.cost_basis > 0
             THEN Max(0, asset.cost_basis
                         - MulDiv(asset.cost_basis, withdrawn, starting_balance))
             ELSE asset.cost_basis, LAMBDA basis :
         [asset EXCEPT !.balance = starting_balance - withdrawn,
                       !.withdrawals = @ + withdrawn,
                       !.cost_basis = basis])))

\* a growth step that applies the year's return twice
apply_asset_growth_twice(asset, annual_return) ==
    Let(Pct(asset.balance, annual_return), LAMBDA inv :
    [asset EXCEPT !.investment_return = inv,
                  !.balance = @ + inv + Pct(asset.balance + inv, annual_return)])

\* _apply_asset_growth_with_return (engine.py)
apply_asset_growth_with_return(asset, annual_return) ==
    Let(Pct(asset.balance, annual_return), LAMBDA inv :
    [asset EXCEPT !.investment_return = inv, !.balance = @ + inv])

\* PensionPot.begin_year
PensionBeginYear(pot) ==
    [pot EXCEPT !.investment_return = 0, !.contributions = 0, !.withdrawals = 0]

\* PensionPot.contribute
PensionContribute(pot, amount) ==
    IF amount <= 0 THEN pot
    ELSE [pot EXCEPT !.contributions = @ + amount, !.balance = @ + amount]

\* PensionPot.withdraw
PensionWithdraw(pot, amount) ==
    IF amount <= 0 THEN pot
    ELSE Let(Min(pot.balance, amount), LAMBDA withdrawn :
         [pot EXCEPT !.withdrawals = @ + withdrawn, !.balance = @ - withdrawn])

\* PensionPot.step: begin_year(), then growth by annual_return
PensionStep(pot) ==
    Let(Pct(pot.balance, pot.annual_return), LAMBDA inv :
    [pot EXCEPT !.contributions = 0, !.withdrawals = 0,
                !.investment_return = inv, !.balance = @ + inv])

\* MortgageAccount.step: the twelve monthly sub-steps
RECURSIVE MortgageMonths(_, _)
MortgageMonths(k, m) ==
    IF k = 0 \/ m.balance <= 0 \/ m.months_remaining <= 0 THEN m
    ELSE LET interest  == MulDiv(m.balance, m.annual_interest_rate, 1200)
             payment   == Min(m.monthly_payment, m.balance + interest)
             principal == Max(0, payment - interest)
         IN  Let([m EXCEPT !.interest_paid = @ + interest,
                           !.principal_paid = @ + principal,
                           !.payment_made = @ + payment,
                           !.balance = Max(0, m.balance + interest - payment),
                           !.months_remaining = @ - 1], LAMBDA next_month :
             MortgageMonths(k - 1, next_month))

MortgageStep(mortgage) ==
    Let([mortgage EXCEPT !.interest_paid = 0, !.principal_paid = 0, !.payment_made = 0],
        LAMBDA m :
    IF m.balance <= 0 \/ m.months_remaining <= 0
    THEN [m EXCEPT !.balance = Max(0, m.balance),
                   !.months_remaining = Max(0, m.months_remaining)]
    ELSE MortgageMonths(12, m))

---------------------------------------------------------------------------
(* Ordering of names.  str.lower() and the order of Python strings are      *)
(* tabulated for the names the scenarios of this model use.                 *)

\* name.lower()
lower(name) ==
    CASE name = "Cash"   -> "cash"
      [] name = "ISA"    -> "isa"
      [] name = "GIA"    -> "gia"
      [] name = "Alpha"  -> "alpha"
      [] name = "Bonds"  -> "bonds"
      [] name = "Stocks" -> "stocks"
      [] name = "Zeta"   -> "zeta"
      [] OTHER           -> name

\* the lowercase names in the order of Python's string comparison
SortedStrings ==
    <<"alpha", "bonds", "cash", "gia", "isa", "p1", "p2", "p3", "p4", "p9", "pension", "stocks", "zeta">>

StrRank(str) == CHOOSE i \in 1..Len(SortedStrings) : SortedStrings[i] = str

\* list.sort / sorted: a stable sort; before(x, y) is "the key of x is less than the key of y"
RECURSIVE InsertStable(_, _, _)
InsertStable(before(_, _), sorted, x) ==
    Let(sorted, LAMBDA t :
    IF t = <<>> THEN <<x>>
    ELSE IF before(x, t[1]) THEN <<x>> \o t
    ELSE <<t[1]>> \o InsertStable(before, Tail(t), x))

RECURSIVE SortStable(_, _)
SortStable(before(_, _), s) ==
    Let(s, LAMBDA t :
    IF t = <<>> THEN <<>>
    ELSE Let(SortStable(before, SubSeq(t, 1, Len(t) - 1)), LAMBDA head :
         InsertStable(before, head, t[Len(t)])))

---------------------------------------------------------------------------
(* Reference engine: backend/simulation/engine.py *)

\* the 24 field names of SimulationRunMatrices.fields
FieldNames ==
    {"net_worth", "salary_gross", "salary_net", "rental_income", "gift_income",
     "pension_income", "state_pension_income", "investment_returns", "total_income",
     "total_expenses", "mortgage_payment", "pension_contributions", "fun_fund",
     "income_tax_paid", "ni_paid", "total_tax", "isa_balance", "pension_balance",
     "cash_balance", "total_assets", "mortgage_balance", "total_liabilities",
     "mortgage_paid_off", "is_depleted"}

\* the cash account the engines append when the scenario lists no CASH asset
CashStub ==
    [name |-> "Cash", asset_type |-> "CASH", withdrawal_priority |-> 0,
     balance |-> 0, annual_contribution |-> 0, cost_basis |-> 0,
     growth_rate_mean |-> 0, growth_rate_std |-> 0,
     investment_return |-> 0, contribution_made |-> 0, withdrawals |-> 0, deposits |-> 0]

\* the asset list of a run: the scenario's assets, plus a cash account if none is CASH
run_assets(assets) ==
    IF \E i \in 1..Len(assets) : assets[i].asset_type = "CASH"
    THEN assets ELSE Append(assets, CashStub)

\* cash_assets[0]: the index of the first CASH asset
primary_cash_index(assets) ==
    CHOOSE i \in 1..Len(assets) :
        /\ assets[i].asset_type = "CASH"
        /\ \A j \in 1..(i - 1) : assets[j].asset_type # "CASH"

\* a sort key without the name: (-priority) only
withdrawal_before_by_priority(x, y) == x.priority > y.priority

\* the key (-priority, name) of withdrawal_order.sort
withdrawal_before(x, y) ==
    \/ x.priority > y.priority
    \/ x.priority = y.priority /\ StrRank(x.name) < StrRank(y.name)

\* withdrawal_order: the non-cash assets and one pension slot (asset = 0), sorted
ref_withdrawal_order(assets, pension_withdrawal_priority) ==
    Let(FilterSeq(LAMBDA i : assets[i].asset_type # "CASH", [i \in 1..Len(assets) |-> i]),
        LAMBDA idx :
    Let([k \in 1..Len(idx) |->
            [priority |-> assets[idx[k]].withdrawal_priority,
             name     |-> lower(assets[idx[k]].name),
             asset    |-> idx[k]]], LAMBDA items :
    SortStable(withdrawal_before,
               Append(items, [priority |-> pension_withdrawal_priority,
                              name |-> "pension", asset |-> 0]))))

\* the salary loop of the year: people who are not retired have each of their
\* salaries stepped; the contributions are taken from gross_annual after the step
ref_salary_pass(people, salary_by_person, pension_by_person, year) ==
    Let({people[i].key : i \in {j \in 1..Len(people) : ~is_retired_in_year(people[j], year)}},
        LAMBDA active :
    Let([i \in 1..Len(salary_by_person) |->
            IF salary_by_person[i].key \in active
            THEN [key   |-> salary_by_person[i].key,
                  value |-> MapSeq(LAMBDA x : SalaryStep(x, year), salary_by_person[i].value)]
            ELSE salary_by_person[i]], LAMBDA sal :
    Let(FilterSeq(LAMBDA e : e.key \in active, sal), LAMBDA stepped :
    LET gross_of(e) == SumSeq(MapSeq(LAMBDA x : x.salary_gross, e.value))
        ee_of(e) == SumSeq(MapSeq(LAMBDA x : Pct(x.gross_annual, x.employee_pension_pct),
                                  e.value))
        er_of(e) == SumSeq(MapSeq(LAMBDA x : Pct(x.gross_annual, x.employer_pension_pct),
                                  e.value))
        contrib_for(key) ==
            Let(DictGet(stepped, key), LAMBDA v :
            IF IsNone(v) THEN 0
            ELSE SumSeq(MapSeq(LAMBDA x : Max(0, Pct(x.gross_annual, x.employee_pension_pct)
                                                 + Pct(x.gross_annual, x.employer_pension_pct)),
                               Val(v))))
    IN  [salary_by_person  |-> sal,
         pension_by_person |->
             [i \in 1..Len(pension_by_person) |->
                 [key   |-> pension_by_person[i].key,
                  value |-> PensionContribute(pension_by_person[i].value,
                                              contrib_for(pension_by_person[i].key))]],
         salary_gross_total     |-> SumSeq(MapSeq(gross_of, stepped)),
         employee_pension_total |-> SumSeq(MapSeq(ee_of, stepped)),
         employer_pension_total |-> SumSeq(MapSeq(er_of, stepped))])))

\* eligible_pensions: the pots whose key is a person who can access the pension
ref_pension_eligible(people, key, year, pension_access_age) ==
    \E i \in 1..Len(people) :
        /\ people[i].key = key
        /\ can_access_pension_in_year(people[i], year, pension_access_age)

\* one source of the shortfall loop, applied to the loop state st
ref_withdraw_from(st, src, cash, people, year, state_pension_income, assumptions) ==
    IF src.asset # 0
    THEN
      Let(st.assets[src.asset], LAMBDA a :
      IF a.asset_type = "GIA"
      THEN Let(calculate_gia_withdrawal(st.remaining_shortfall, a.balance,
                   a.cost_basis, st.cgt_allowance_remaining, assumptions.cgt_rate),
               LAMBDA res :
           Let([st.assets EXCEPT ![src.asset] = AssetWithdraw(a, res.gross_withdrawal)],
               LAMBDA as1 :
           [st EXCEPT
              !.assets = [as1 EXCEPT ![cash].balance = @ + res.net_withdrawal],
              !.cgt_allowance_remaining = res.cgt_allowance_remaining,
              !.cgt_paid = @ + res.tax_paid,
              !.gains = @ + res.gains_realized,
              !.remaining_shortfall = @ - res.net_withdrawal]))
      ELSE \* ISA, and unknown types treated as tax-free
           Let(calculate_tax_free_withdrawal(st.remaining_shortfall, a.balance),
               LAMBDA res :
           Let([st.assets EXCEPT ![src.asset] = AssetWithdraw(a, res.gross_withdrawal)],
               LAMBDA as1 :
           [st EXCEPT
              !.assets = [as1 EXCEPT ![cash].balance = @ + res.net_withdrawal],
              !.remaining_shortfall = @ - res.net_withdrawal])))
    ELSE
      Let(st.pension_by_person, LAMBDA pens :
      LET elig(i) == ref_pension_eligible(people, pens[i].key, year,
                                          assumptions.pension_access_age)
      IN
      Let(SumSeq([i \in 1..Len(pens) |-> IF elig(i) THEN pens[i].value.balance ELSE 0]),
          LAMBDA current_pension_balance :
      IF current_pension_balance <= 0 THEN st
      ELSE
      Let(calculate_pension_drawdown(st.remaining_shortfall, state_pension_income,
                                     current_pension_balance), LAMBDA d :
      Let([i \in 1..Len(pens) |->
              IF elig(i) /\ d.gross_withdrawal > 0
              THEN [key   |-> pens[i].key,
                    value |-> PensionWithdraw(pens[i].value,
                                 MulDiv(d.gross_withdrawal, pens[i].value.balance,
                                        current_pension_balance))]
              ELSE pens[i]], LAMBDA pens1 :
      [st EXCEPT
         !.pension_by_person = pens1,
         !.pension_income_net = @ + d.net_income,
         !.pension_income_tax = @ + d.tax_paid,
         !.assets = [@ EXCEPT ![cash].balance = @ + d.net_income],
         !.remaining_shortfall = @ - d.net_income]))))

\* a record of one pass of a shortfall loop: the source it reached (an asset
\* index, 0 for the pension slot), the shortfall that remained at that point,
\* and the CGT allowance that remained before and after the pass
Visit(source, shortfall, allowance_before, allowance_after) == [source |-> source, shortfall |-> shortfall, allowance_before |-> allowance_before, allowance_after |-> allowance_after]

\* for priority, name, asset in withdrawal_order: ... (from position k);
\* st.visited records the sources the loop reaches
RECURSIVE ref_shortfall_loop(_, _, _, _, _, _, _, _)
ref_shortfall_loop(k, order, st, cash, people, year, state_pension_income, assumptions) ==
    IF k > Len(order) \/ st.remaining_shortfall <= 0 THEN st
    ELSE Let(ref_withdraw_from(st, order[k], cash, people, year,
                               state_pension_income, assumptions), LAMBDA r :
         Let([r EXCEPT !.visited = Append(@, Visit(order[k].asset, st.remaining_shortfall,
                                                   st.cgt_allowance_remaining,
                                                   r.cgt_allowance_remaining))],
             LAMBDA after :
         ref_shortfall_loop(k + 1, order, after, cash, people, year,
                            state_pension_income, assumptions)))

\* a shortfall pass without the clamp: cash keeps the negative balance
ref_clamp_cash_off(assets, cash) == assets

\* the clamp after the shortfall loop
ref_clamp_cash(assets, cash) ==
    IF assets[cash].balance < 0 THEN [assets EXCEPT ![cash].balance = 0] ELSE assets

\* the key (-annual_contribution, name.lower()) of the investment pass
invest_before(x, y) ==
    \/ x.annual_contribution > y.annual_contribution
    \/ /\ x.annual_contribution = y.annual_contribution
       /\ StrRank(lower(x.name)) < StrRank(lower(y.name))

\* the indices of the assets of one type in the order of the investment pass
ref_invest_order(assets, type) ==
    Let(FilterSeq(LAMBDA i : assets[i].asset_type = type, [i \in 1..Len(assets) |-> i]),
        LAMBDA idx :
    SortStable(LAMBDA i, j : invest_before(assets[i], assets[j]), idx))

\* the ISA loop of the investment pass; st = [assets, investable, isa_remaining]
RECURSIVE ref_invest_isa(_, _, _, _)
ref_invest_isa(k, order, st, cash) ==
    IF k > Len(order) \/ st.investable <= 0 \/ st.isa_remaining <= 0 THEN st
    ELSE Let(st.assets[order[k]], LAMBDA a :
         Let(IF a.annual_contribution > 0 THEN a.annual_contribution
             ELSE st.isa_remaining, LAMBDA cap :
         Let(Min3(st.investable, st.isa_remaining, cap), LAMBDA amount :
         IF amount <= 0 THEN ref_invest_isa(k + 1, order, st, cash)
         ELSE Let([assets |-> [st.assets EXCEPT ![order[k]] = AssetDeposit(a, amount),
                                               ![cash].balance = @ - amount],
                   investable |-> st.investable - amount,
                   isa_remaining |-> st.isa_remaining - amount], LAMBDA after :
              ref_invest_isa(k + 1, order, after, cash)))))

\* the GIA loop of the investment pass
RECURSIVE ref_invest_gia(_, _, _, _)
ref_invest_gia(k, order, st, cash) ==
    IF k > Len(order) \/ st.investable <= 0 THEN st
    ELSE Let(st.assets[order[k]], LAMBDA a :
         Let(IF a.annual_contribution > 0 THEN a.annual_contribution
             ELSE st.investable, LAMBDA cap :
         Let(Min(st.investable, cap), LAMBDA amount :
         IF amount <= 0 THEN ref_invest_gia(k + 1, order, st, cash)
         ELSE Let([assets |-> [st.assets EXCEPT ![order[k]] = AssetDeposit(a, amount),
                                               ![cash].balance = @ - amount],
                   investable |-> st.investable - amount,
                   isa_remaining |-> st.isa_remaining], LAMBDA after :
              ref_invest_gia(k + 1, order, after, cash)))))

\* an investment pass that keeps no emergency fund
ref_invest_all_cash(assets, cash, emergency_target, isa_annual_limit) ==
    Let(ref_invest_isa(1, ref_invest_order(assets, "ISA"),
            [assets |-> assets, investable |-> assets[cash].balance,
             isa_remaining |-> isa_annual_limit], cash), LAMBDA s1 :
    ref_invest_gia(1, ref_invest_order(assets, "GIA"), s1, cash).assets)

\* the investment pass: ISA accounts first, then GIA accounts
ref_invest(assets, cash, emergency_target, isa_annual_limit) ==
    Let(Max(0, assets[cash].balance - emergency_target), LAMBDA investable :
    IF investable <= 0 THEN assets
    ELSE Let(ref_invest_order(assets, "ISA"), LAMBDA isa_order :
         Let(ref_invest_isa(1, isa_order,
                 [assets |-> assets, investable |-> investable,
                  isa_remaining |-> isa_annual_limit], cash), LAMBDA s1 :
         Let(ref_invest_order(assets, "GIA"), LAMBDA gia_order :
         Let(ref_invest_gia(1, gia_order, s1, cash), LAMBDA s2 :
         s2.assets)))))

\* the index of key in the list keys, or 0
IndexOf(keys, key) ==
    IF \E i \in 1..Len(keys) : keys[i] = key
    THEN CHOOSE i \in 1..Len(keys) : keys[i] = key /\ \A j \in 1..(i - 1) : keys[j] # key
    ELSE 0

\* "Apply cached pension returns (per pension key)": pots named by
\* returns.pension_keys take their return from the tensor, the others keep theirs
ref_set_pension_returns(pension_by_person, pension_keys, pension_row) ==
    [i \in 1..Len(pension_by_person) |->
        Let(IndexOf(pension_keys, pension_by_person[i].key), LAMBDA p_idx :
        IF p_idx = 0 THEN pension_by_person[i]
        ELSE [pension_by_person[i] EXCEPT !.value.annual_return = pension_row[p_idx]])]

\* what the salary loop did to each salary: for each person in order and each
\* salary stored under the person's key, gross_annual before and after the loop
ref_salary_trace(people, before, after) ==
    Flatten([i \in 1..Len(people) |->
        Let(DictGet(before, people[i].key), LAMBDA b :
        Let(DictGet(after, people[i].key), LAMBDA a :
        IF IsNone(b) THEN <<>>
        ELSE [k \in 1..Len(Val(b)) |->
                 [person |-> i, before |-> Val(b)[k].gross_annual,
                  after |-> Val(a)[k].gross_annual]]))])

\* the year's total_expenses without the fun fund
total_expenses_without_fun_fund(expense_total, mortgage_payment, extra_retirement_spend) == expense_total + mortgage_payment

\* total_expenses of the snapshot: expenses, mortgage payment and extra retirement spend
total_expenses(expense_total, mortgage_payment, extra_retirement_spend) == expense_total + mortgage_payment + extra_retirement_spend

\* One simulated year of _simulate_single_run_to_matrices.
\*   scn          the scenario (read only)
\*   w            the run's entities (the clones) and current_state_pension_annual
\*   year         the simulated year
\*   asset_row    returns.asset_returns[iteration_idx, year_idx, :]
\*   pension_keys, pension_row   returns.pension_keys, returns.pension_returns[it, y, :]
\* The result is [w |-> the entities after the year, row |-> the 24 output cells,
\* trace |-> what the salary loop, the shortfall pass and the investment pass did].
ref_year(scn, w, year, asset_row, pension_keys, pension_row) ==
    LET people == scn.people
        asm    == scn.assumptions
        cash   == primary_cash_index(w.assets)
    IN
    \* begin_year
    Let(MapSeq(AssetBeginYear, w.assets), LAMBDA assets0 :
    Let([i \in 1..Len(w.pension_by_person) |->
           [key |-> w.pension_by_person[i].key,
            value |-> PensionBeginYear(w.pension_by_person[i].value)]], LAMBDA pens0 :
    LET is_all_retired == IF people # <<>>
                          THEN \A i \in 1..Len(people) : is_retired_in_year(people[i], year)
                          ELSE FALSE
    IN
    \* income
    Let(ref_salary_pass(people, w.salary_by_person, pens0, year), LAMBDA sp :
    Let(MapSeq(LAMBDA x : IncomeStep(x, year), w.rental_incomes), LAMBDA rentals :
    LET rental_income_gross == SumSeq(MapSeq(LAMBDA x : x.income_gross, rentals))
    IN
    Let(MapSeq(LAMBDA x : IncomeStep(x, year), w.gift_incomes), LAMBDA gifts :
    LET gift_income_total == SumSeq(MapSeq(LAMBDA x : x.income_gross, gifts))
    IN
    \* tax
    Let(calculate_for_salary(sp.salary_gross_total, sp.employee_pension_total),
        LAMBDA tax_breakdown :
    Let(calculate_income_tax_on_additional_income(
            sp.salary_gross_total - sp.employee_pension_total,
            rental_income_gross), LAMBDA rental_income_tax :
    LET salary_net == sp.salary_gross_total - tax_breakdown.total_tax
                      - sp.employee_pension_total
        rental_income_net == rental_income_gross - rental_income_tax
    IN
    Let(ref_set_pension_returns(sp.pension_by_person, pension_keys, pension_row), LAMBDA pens1 :
    \* mortgage and expenses
    Let(IF IsNone(w.mortgage) THEN None ELSE Some(MortgageStep(Val(w.mortgage))), LAMBDA mortgage :
    Let(MapSeq(LAMBDA x : ExpenseStep(x, asm.inflation_rate), w.expenses), LAMBDA expenses :
    \* state pension
    LET n_eligible == Cardinality({i \in 1..Len(people) :
                                     is_state_pension_eligible_in_year(people[i], year)})
        state_pension_income == n_eligible * w.current_state_pension_annual
        next_state_pension == w.current_state_pension_annual
                              + Pct(w.current_state_pension_annual, asm.inflation_rate)
        expense_total == SumSeq(MapSeq(LAMBDA x : x.annual_spend, expenses))
        mortgage_payment == IF IsNone(mortgage) THEN 0 ELSE Val(mortgage).payment_made
        extra_retirement_spend == IF is_all_retired THEN scn.annual_spend_target ELSE 0
        total_outflows == expense_total + mortgage_payment + extra_retirement_spend
        \* (total_outflows / 12) * emergency_fund_months
        emergency_target == IF total_outflows > 0
                            THEN MulDiv(total_outflows, asm.emergency_fund_months, 12)
                            ELSE 0
    IN
    \* cash inflows and outflows
    Let([assets0 EXCEPT ![cash].balance =
            @ + salary_net + rental_income_net + gift_income_total
              + state_pension_income - total_outflows], LAMBDA assets1 :
    Let([assets |-> assets1, pension_by_person |-> pens1,
         remaining_shortfall |-> emergency_target - assets1[cash].balance,
         cgt_allowance_remaining |-> asm.cgt_annual_allowance,
         cgt_paid |-> 0, pension_income_net |-> 0, pension_income_tax |-> 0,
         gains |-> 0, visited |-> <<>>, clamped |-> FALSE], LAMBDA st0 :
    \* shortfall pass
    Let(IF assets1[cash].balance < emergency_target
        THEN Let(ref_shortfall_loop(1, w.withdrawal_order, st0, cash, people, year,
                                    state_pension_income, asm), LAMBDA r :
             [r EXCEPT !.assets = ref_clamp_cash(r.assets, cash),
                       !.clamped = r.assets[cash].balance < 0])
        ELSE st0, LAMBDA st1 :
    \* investment pass
    Let(ref_invest(st1.assets, cash, emergency_target, asm.isa_annual_limit), LAMBDA assets2 :
    \* growth
    Let([i \in 1..Len(assets2) |->
           apply_asset_growth_with_return(assets2[i], asset_row[i])], LAMBDA assets3 :
    Let([i \in 1..Len(st1.pension_by_person) |->
           [key |-> st1.pension_by_person[i].key,
            value |-> PensionStep(st1.pension_by_person[i].value)]], LAMBDA pens3 :
    \* totals
    LET pension_balance == SumSeq(MapSeq(LAMBDA e : e.value.balance, pens3))
        mortgage_balance == IF IsNone(mortgage) THEN 0 ELSE Val(mortgage).balance
        isa_balance  == SumSeq(MapSeq(LAMBDA a : IF a.asset_type = "ISA" THEN a.balance ELSE 0,
                                      assets3))
        cash_balance == SumSeq(MapSeq(LAMBDA a : IF a.asset_type = "CASH" THEN a.balance ELSE 0,
                                      assets3))
        total_assets == SumSeq(MapSeq(LAMBDA a : a.balance, assets3)) + pension_balance
        total_liabilities == mortgage_balance
        pension_investment_return ==
            SumSeq(MapSeq(LAMBDA e : e.value.investment_return, pens3))
        investment_returns == SumSeq(MapSeq(LAMBDA a : a.investment_return, assets3))
                              + pension_investment_return
        income_tax_paid == tax_breakdown.income_tax + rental_income_tax
                           + st1.pension_income_tax + st1.cgt_paid
        ni_paid == tax_breakdown.national_insurance
    IN  [w |-> [w EXCEPT !.salary_by_person = sp.salary_by_person,
                         !.pension_by_person = pens3,
                         !.rental_incomes = rentals,
                         !.gift_incomes = gifts,
                         !.assets = assets3,
                         !.mortgage = mortgage,
                         !.expenses = expenses,
                         !.current_state_pension_annual = next_state_pension],
         trace |-> [visited |-> st1.visited,
                    unmet |-> st1.remaining_shortfall,
                    emergency_target |-> emergency_target,
                    cash_before |-> st1.assets[cash].balance,
                    cash_after |-> assets2[cash].balance,
                    invested |-> [i \in 1..Len(assets2) |-> assets2[i].deposits],
                    salaries |-> ref_salary_trace(people, w.salary_by_person,
                                                  sp.salary_by_person),
                    rentals |-> [i \in 1..Len(rentals) |->
                                    [before |-> w.rental_incomes[i].gross_annual,
                                     after  |-> rentals[i].gross_annual]],
                    gifts |-> [i \in 1..Len(gifts) |->
                                  [before |-> w.gift_incomes[i].gross_annual,
                                   after  |-> gifts[i].gross_annual]],
                    employee |-> sp.employee_pension_total,
                    credited |-> SumSeq(MapSeq(LAMBDA e : e.value.balance, sp.pension_by_person))
                                 - SumSeq(MapSeq(LAMBDA e : e.value.balance, pens0)),
                    salary_tax |-> tax_breakdown.income_tax,
                    rental_gross |-> rental_income_gross,
                    rental_tax |-> rental_income_tax,
                    expenses |-> [i \in 1..Len(expenses) |-> expenses[i].annual_spend],
                    children |-> 0,
                    assets |-> [i \in 1..Len(assets3) |->
                                   [start      |-> w.assets[i].balance,
                                    pre_pass   |-> assets1[i].balance,
                                    post_pass  |-> st1.assets[i].balance,
                                    pre_growth |-> assets2[i].balance,
                                    after      |-> assets3[i].balance,
                                    rate       |-> asset_row[i]]],
                    pensions |-> [i \in 1..Len(pens3) |->
                                     [key       |-> pens3[i].key,
                                      start     |-> w.pension_by_person[i].value.balance,
                                      pre_pass  |-> pens1[i].value.balance,
                                      post_pass |-> st1.pension_by_person[i].value.balance,
                                      after     |-> pens3[i].value.balance,
                                      rate      |-> pens1[i].value.annual_return]],
                    cgt_paid |-> st1.cgt_paid,
                    gains |-> st1.gains,
                    cgt_allowance |-> st0.cgt_allowance_remaining,
                    pension_tax |-> st1.pension_income_tax,
                    pension_net |-> st1.pension_income_net,
                    clamped |-> st1.clamped],
         row |-> [net_worth |-> total_assets - total_liabilities,
                  salary_gross |-> sp.salary_gross_total,
                  salary_net |-> salary_net,
                  rental_income |-> rental_income_net,
                  gift_income |-> gift_income_total,
                  pension_income |-> st1.pension_income_net,
                  state_pension_income |-> state_pension_income,
                  investment_returns |-> investment_returns,
                  total_income |-> salary_net + rental_income_net + gift_income_total
                                   + st1.pension_income_net + state_pension_income,
                  total_expenses |-> total_expenses(expense_total, mortgage_payment, extra_retirement_spend),
                  mortgage_payment |-> mortgage_payment,
                  pension_contributions |-> sp.employee_pension_total
                                            + sp.employer_pension_total,
                  fun_fund |-> extra_retirement_spend,
                  income_tax_paid |-> income_tax_paid,
                  ni_paid |-> ni_paid,
                  total_tax |-> income_tax_paid + ni_paid,
                  isa_balance |-> isa_balance,
                  pension_balance |-> pension_balance,
                  cash_balance |-> cash_balance,
                  total_assets |-> total_assets,
                  mortgage_balance |-> mortgage_balance,
                  total_liabilities |-> total_liabilities,
                  mortgage_paid_off |-> IF IsNone(mortgage) \/ mortgage_balance <= 0
                                        THEN 1 ELSE 0,
                  is_depleted |-> IF total_assets <= 0 THEN 1 ELSE 0]]))))))))))))))))

---------------------------------------------------------------------------
(* Array scenario: backend/simulation/array_scenario.py *)

\* the sentinel build_array_scenario stores for an unset retirement or state pension age
NO_AGE == 999

\* the sentinel build_array_scenario stores for an unset start_year or end_year
NO_YEAR == -1

OptYear(o) == IF IsNone(o) THEN NO_YEAR ELSE Val(o)

OptAge(o) == IF IsNone(o) THEN NO_AGE ELSE Val(o)

\* _asset_type_code
asset_type_code(asset_type) ==
    CASE asset_type = "CASH" -> 0
      [] asset_type = "ISA"  -> 1
      [] asset_type = "GIA"  -> 2
      [] OTHER               -> 3

\* salary_rows: for each person in order, the salaries stored under the person's key
salary_rows(scn) ==
    Flatten([i \in 1..Len(scn.people) |->
        Let(DictGet(scn.salary_by_person, scn.people[i].key), LAMBDA v :
        IF IsNone(v) THEN <<>>
        ELSE [k \in 1..Len(Val(v)) |-> [person_idx |-> i, salary |-> Val(v)[k]]])])

\* scenario.pension_by_person[key] raises KeyError for a key the scenario does not hold
build_array_scenario_raises(scn, returns) ==
    \E i \in 1..Len(returns.pension_keys) :
        returns.pension_keys[i] \notin DictKeys(scn.pension_by_person)

\* build_array_scenario (when it does not raise)
build_array_scenario(scn, returns) ==
    Let(salary_rows(scn), LAMBDA rows :
    Let(run_assets(scn.assets), LAMBDA assets :
    Let(scn.people, LAMBDA people :
    [years |-> returns.years,
     people_birth_years |-> [i \in 1..Len(people) |-> people[i].birth_year],
     people_retirement_ages |->
         [i \in 1..Len(people) |-> OptAge(people[i].planned_retirement_age)],
     people_state_pension_ages |->
         [i \in 1..Len(people) |-> OptAge(people[i].state_pension_age)],
     people_is_child |-> [i \in 1..Len(people) |-> IF people[i].is_child THEN 1 ELSE 0],
     people_annual_cost |-> [i \in 1..Len(people) |-> people[i].annual_cost],
     people_leaves_household_age |->
         [i \in 1..Len(people) |-> people[i].leaves_household_age],
     salary_person_idx   |-> [k \in 1..Len(rows) |-> rows[k].person_idx],
     salary_gross_annual |-> [k \in 1..Len(rows) |-> rows[k].salary.gross_annual],
     salary_growth_rate  |-> [k \in 1..Len(rows) |-> rows[k].salary.annual_growth_rate],
     salary_employee_pct |-> [k \in 1..Len(rows) |-> rows[k].salary.employee_pension_pct],
     salary_employer_pct |-> [k \in 1..Len(rows) |-> rows[k].salary.employer_pension_pct],
     salary_start_year   |-> [k \in 1..Len(rows) |-> OptYear(rows[k].salary.start_year)],
     salary_end_year     |-> [k \in 1..Len(rows) |-> OptYear(rows[k].salary.end_year)],
     rental_gross_annual |-> MapSeq(LAMBDA r : r.gross_annual, scn.rental_incomes),
     rental_growth_rate  |-> MapSeq(LAMBDA r : r.annual_growth_rate, scn.rental_incomes),
     rental_start_year   |-> MapSeq(LAMBDA r : OptYear(r.start_year), scn.rental_incomes),
     rental_end_year     |-> MapSeq(LAMBDA r : OptYear(r.end_year), scn.rental_incomes),
     gift_gross_annual   |-> MapSeq(LAMBDA g : g.gross_annual, scn.gift_incomes),
     gift_growth_rate    |-> MapSeq(LAMBDA g : g.annual_growth_rate, scn.gift_incomes),
     gift_start_year     |-> MapSeq(LAMBDA g : OptYear(g.start_year), scn.gift_incomes),
     gift_end_year       |-> MapSeq(LAMBDA g : OptYear(g.end_year), scn.gift_incomes),
     asset_types |-> MapSeq(LAMBDA a : asset_type_code(a.asset_type), assets),
     asset_withdrawal_priority |-> MapSeq(LAMBDA a : a.withdrawal_priority, assets),
     asset_balances |-> MapSeq(LAMBDA a : a.balance, assets),
     asset_cost_bases |-> MapSeq(LAMBDA a : a.cost_basis, assets),
     asset_annual_contrib |-> MapSeq(LAMBDA a : a.annual_contribution, assets),
     asset_names |-> MapSeq(LAMBDA a : a.name, assets),
     pension_keys |-> returns.pension_keys,
     \* the person's index, or 0 where the source stores -1
     pension_person_idx |->
         MapSeq(LAMBDA key : IndexOf(MapSeq(LAMBDA q : q.key, people), key),
                returns.pension_keys),
     pension_balances |->
         MapSeq(LAMBDA key : Val(DictGet(scn.pension_by_person, key)).balance,
                returns.pension_keys),
     has_mortgage |-> ~IsNone(scn.mortgage),
     mortgage_balance |-> IF IsNone(scn.mortgage) THEN 0 ELSE Val(scn.mortgage).balance,
     mortgage_annual_interest_rate |->
         IF IsNone(scn.mortgage) THEN 0 ELSE Val(scn.mortgage).annual_interest_rate,
     mortgage_monthly_payment |->
         IF IsNone(scn.mortgage) THEN 0 ELSE Val(scn.mortgage).monthly_payment,
     expense_annual_amount |-> MapSeq(LAMBDA e : e.annual_amount, scn.expenses),
     expense_is_inflation_linked |->
         MapSeq(LAMBDA e : IF e.is_inflation_linked THEN 1 ELSE 0, scn.expenses),
     annual_spend_target |-> scn.annual_spend_target,
     pension_withdrawal_priority |-> scn.pension_withdrawal_priority,
     assumptions |-> scn.assumptions])))

---------------------------------------------------------------------------
(* Fast engine: backend/simulation/engine_fast.py *)

\* the key (-priority, asset index) of withdrawal_items.sort; the pension slot
\* carries index -1 in the source and 0 here, below every asset index
fast_withdrawal_before(x, y) ==
    \/ x.priority > y.priority
    \/ x.priority = y.priority /\ x.asset_idx < y.asset_idx

\* withdrawal_items of _run_monte_carlo_fast, sorted
fast_withdrawal_order(sc) ==
    Let(FilterSeq(LAMBDA i : sc.asset_types[i] # 0,
                  [i \in 1..Len(sc.asset_types) |-> i]), LAMBDA idx :
    Let([k \in 1..Len(idx) |->
            [priority |-> sc.asset_withdrawal_priority[idx[k]],
             is_pension |-> 0, asset_idx |-> idx[k]]], LAMBDA items :
    SortStable(fast_withdrawal_before,
               Append(items, [priority |-> sc.pension_withdrawal_priority,
                              is_pension |-> 1, asset_idx |-> 0]))))

\* cash_idx: the first asset of type ASSET_CASH
fast_cash_idx(sc) ==
    CHOOSE i \in 1..Len(sc.asset_types) :
        sc.asset_types[i] = 0 /\ \A j \in 1..(i - 1) : sc.asset_types[j] # 0

\* the mutable arrays and scalars _run_monte_carlo_fast hands to the kernel: the
\* .copy() of the array scenario's arrays, and the scalars passed by value
kernel_arguments(sc) ==
    [asset_balances   |-> sc.asset_balances,
     asset_cost_bases |-> sc.asset_cost_bases,
     pension_balances |-> sc.pension_balances,
     mortgage_balance |-> sc.mortgage_balance,
     salary_gross     |-> sc.salary_gross_annual,
     rental_gross     |-> sc.rental_gross_annual,
     gift_gross       |-> sc.gift_gross_annual,
     expense_amounts  |-> sc.expense_annual_amount,
     state_pension    |-> sc.assumptions.state_pension_annual,
     child_costs      |-> sc.people_annual_cost]

\* start_year/end_year test of the kernel: -1 stands for "unset"
fast_in_window(start_year, end_year, year) ==
    /\ ~(start_year >= 0 /\ year < start_year)
    /\ ~(end_year >= 0 /\ year > end_year)

\* the salary loop; st = [salary_gross, pension_balances, gross, employee, employer]
RECURSIVE fast_salary_loop(_, _, _, _)
fast_salary_loop(s, sc, st, year) ==
    IF s > Len(sc.salary_person_idx) THEN st
    ELSE
      Let(sc.salary_person_idx[s], LAMBDA p_idx :
      Let(year - sc.people_birth_years[p_idx], LAMBDA age :
      IF \/ age >= sc.people_retirement_ages[p_idx]
         \/ ~fast_in_window(sc.salary_start_year[s], sc.salary_end_year[s], year)
      THEN fast_salary_loop(s + 1, sc, st, year)
      ELSE
        Let(st.salary_gross[s] + Pct(st.salary_gross[s], sc.salary_growth_rate[s]), LAMBDA g :
        Let(Pct(g, sc.salary_employee_pct[s]), LAMBDA ee :
        Let(Pct(g, sc.salary_employer_pct[s]), LAMBDA er :
        Let(IndexOf(sc.pension_person_idx, p_idx), LAMBDA pen :
        Let([salary_gross |-> [st.salary_gross EXCEPT ![s] = g],
             pension_balances |->
                 IF pen = 0 THEN st.pension_balances
                 ELSE [st.pension_balances EXCEPT ![pen] = @ + ee + er],
             gross |-> st.gross + g,
             employee |-> st.employee + ee,
             employer |-> st.employer + er], LAMBDA after :
        fast_salary_loop(s + 1, sc, after, year))))))))

\* the rental and the gift loop: the amounts after the year, grown inside the window
fast_income_grow(gross, growth_rate, start_year, end_year, year) ==
    [i \in 1..Len(gross) |->
        IF fast_in_window(start_year[i], end_year[i], year)
        THEN gross[i] + Pct(gross[i], growth_rate[i]) ELSE gross[i]]

\* the income of the year of the rental and the gift loop
fast_income_total(grown, start_year, end_year, year) ==
    SumSeq([i \in 1..Len(grown) |->
               IF fast_in_window(start_year[i], end_year[i], year) THEN grown[i] ELSE 0])

\* eligibility of a pension slot for drawdown: a known person at pension_access_age
fast_pension_eligible(sc, pen_idx, year) ==
    /\ sc.pension_person_idx[pen_idx] # 0
    /\ year - sc.people_birth_years[sc.pension_person_idx[pen_idx]]
          >= sc.assumptions.pension_access_age

\* one entry of the withdrawal arrays, applied to the loop state st =
\* [asset_balances, asset_cost_bases, pension_balances, shortfall,
\*  cgt_allowance_remaining, cgt_paid, pension_income_net, pension_income_tax]
fast_withdraw_from(sc, st, wd, cash_idx, year, state_pension_income) ==
    IF wd.is_pension = 1
    THEN
      Let(Len(st.pension_balances), LAMBDA n :
      Let(SumSeq([i \in 1..n |-> IF fast_pension_eligible(sc, i, year)
                                 THEN st.pension_balances[i] ELSE 0]),
          LAMBDA eligible_pension_balance :
      IF eligible_pension_balance <= 0 THEN st
      ELSE
      Let(fast_calculate_pension_drawdown(st.shortfall, state_pension_income,
                                          eligible_pension_balance), LAMBDA d :
      [st EXCEPT
         !.pension_income_net = @ + d.net,
         !.pension_income_tax = @ + d.tax,
         !.asset_balances = [@ EXCEPT ![cash_idx] = @ + d.net],
         !.shortfall = @ - d.net,
         !.pension_balances =
             [i \in 1..n |->
                IF /\ d.gross > 0
                   /\ fast_pension_eligible(sc, i, year)
                   /\ st.pension_balances[i] > 0
                THEN st.pension_balances[i]
                     - MulDiv(d.gross, st.pension_balances[i], eligible_pension_balance)
                ELSE st.pension_balances[i]]])))
    ELSE
      Let(wd.asset_idx, LAMBDA a_idx :
      Let(st.asset_balances[a_idx], LAMBDA balance :
      Let(st.asset_cost_bases[a_idx], LAMBDA cost_basis :
      Let(Min(balance, st.shortfall), LAMBDA gross :
      IF balance <= 0 THEN st
      ELSE IF sc.asset_types[a_idx] = 2
      THEN
        Let(Max(0, balance - cost_basis), LAMBDA total_gains :
        Let(MulDiv(gross, total_gains, balance), LAMBDA gains_realized :
        Let(Min(st.cgt_allowance_remaining, gains_realized), LAMBDA allowance_used :
        Let(Max(0, gains_realized - allowance_used), LAMBDA taxable_gains :
        Let(Pct(taxable_gains, sc.assumptions.cgt_rate), LAMBDA tax :
        Let(gross - tax, LAMBDA net :
        Let([st.asset_balances EXCEPT ![a_idx] = @ - gross], LAMBDA bal1 :
        [st EXCEPT
           !.cgt_allowance_remaining = @ - allowance_used,
           !.cgt_paid = @ + tax,
           !.gains = @ + gains_realized,
           !.asset_cost_bases =
               IF cost_basis > 0
               THEN [@ EXCEPT ![a_idx] =
                        Max(0, cost_basis - MulDiv(cost_basis, gross, balance))]
               ELSE @,
           !.asset_balances = [bal1 EXCEPT ![cash_idx] = @ + net],
           !.shortfall = @ - net])))))))
      ELSE
        Let([st.asset_balances EXCEPT ![a_idx] = @ - gross], LAMBDA bal1 :
        [st EXCEPT
           !.asset_balances = [bal1 EXCEPT ![cash_idx] = @ + gross],
           !.shortfall = @ - gross])))))

\* for w_idx in range(n_withdrawals), from position k;
\* st.visited records the sources the loop reaches
RECURSIVE fast_shortfall_loop(_, _, _, _, _, _, _)
fast_shortfall_loop(k, sc, order, st, cash_idx, year, state_pension_income) ==
    IF k > Len(order) \/ st.shortfall <= 0 THEN st
    ELSE Let(fast_withdraw_from(sc, st, order[k], cash_idx, year, state_pension_income),
             LAMBDA r :
         Let([r EXCEPT !.visited = Append(@, Visit(order[k].asset_idx, st.shortfall,
                                                   st.cgt_allowance_remaining,
                                                   r.cgt_allowance_remaining))],
             LAMBDA after :
         fast_shortfall_loop(k + 1, sc, order, after, cash_idx, year, state_pension_income)))

\* the ISA loop of "Invest excess cash", in asset index order;
\* st = [asset_balances, asset_cost_bases, investable, isa_remaining]
RECURSIVE fast_invest_isa(_, _, _, _)
fast_invest_isa(a_idx, sc, st, cash_idx) ==
    IF a_idx > Len(sc.asset_types) \/ st.investable <= 0 \/ st.isa_remaining <= 0 THEN st
    ELSE IF sc.asset_types[a_idx] # 1 THEN fast_invest_isa(a_idx + 1, sc, st, cash_idx)
    ELSE Let(IF sc.asset_annual_contrib[a_idx] > 0
             THEN sc.asset_annual_contrib[a_idx] ELSE st.isa_remaining, LAMBDA cap :
         Let(Min3(st.investable, st.isa_remaining, cap), LAMBDA amount :
         IF amount <= 0 THEN fast_invest_isa(a_idx + 1, sc, st, cash_idx)
         ELSE Let([asset_balances |-> [st.asset_balances EXCEPT ![a_idx] = @ + amount,
                                                               ![cash_idx] = @ - amount],
                   asset_cost_bases |-> [st.asset_cost_bases EXCEPT ![a_idx] = @ + amount],
                   investable |-> st.investable - amount,
                   isa_remaining |-> st.isa_remaining - amount], LAMBDA after :
              fast_invest_isa(a_idx + 1, sc, after, cash_idx))))

\* the GIA loop of "Invest excess cash"
RECURSIVE fast_invest_gia(_, _, _, _)
fast_invest_gia(a_idx, sc, st, cash_idx) ==
    IF a_idx > Len(sc.asset_types) \/ st.investable <= 0 THEN st
    ELSE IF sc.asset_types[a_idx] # 2 THEN fast_invest_gia(a_idx + 1, sc, st, cash_idx)
    ELSE Let(IF sc.asset_annual_contrib[a_idx] > 0
             THEN sc.asset_annual_contrib[a_idx] ELSE st.investable, LAMBDA cap :
         Let(Min(st.investable, cap), LAMBDA amount :
         IF amount <= 0 THEN fast_invest_gia(a_idx + 1, sc, st, cash_idx)
         ELSE Let([asset_balances |-> [st.asset_balances EXCEPT ![a_idx] = @ + amount,
                                                               ![cash_idx] = @ - amount],
                   asset_cost_bases |-> [st.asset_cost_bases EXCEPT ![a_idx] = @ + amount],
                   investable |-> st.investable - amount,
                   isa_remaining |-> st.isa_remaining], LAMBDA after :
              fast_invest_gia(a_idx + 1, sc, after, cash_idx))))

\* "Invest excess cash": [asset_balances, asset_cost_bases] after the pass
fast_invest(sc, asset_balances, asset_cost_bases, cash_idx, emergency_target) ==
    Let(Max(0, asset_balances[cash_idx] - emergency_target), LAMBDA investable :
    Let([asset_balances |-> asset_balances, asset_cost_bases |-> asset_cost_bases,
         investable |-> investable,
         isa_remaining |-> sc.assumptions.isa_annual_limit], LAMBDA st0 :
    IF investable <= 0 THEN st0
    ELSE Let(fast_invest_isa(1, sc, st0, cash_idx), LAMBDA after_isa :
         fast_invest_gia(1, sc, after_isa, cash_idx))))

\* One simulated year of one iteration of _simulate_all_iterations.
\*   sc          the array scenario (read only)
\*   order       the withdrawal arrays
\*   f           the iteration's state (the it_* arrays and scalars)
\*   year        years[y_idx]
\*   asset_row   asset_returns[it, y_idx, a_idx] for a_idx in range(n_assets)
\*   pension_row pension_returns[it, y_idx, pen_idx] for pen_idx in range(n_pensions)
\* The result is [f |-> the state after the year, row |-> the 24 output cells].
fast_year(sc, order, cash_idx, f, year, asset_row, pension_row) ==
    LET asm      == sc.assumptions
        n_people == Len(sc.people_birth_years)
        adults   == {p \in 1..n_people : sc.people_is_child[p] # 1}
        is_all_retired ==
            /\ adults # {}
            /\ \A p \in adults : year - sc.people_birth_years[p] >= sc.people_retirement_ages[p]
    IN
    \* income
    Let(fast_salary_loop(1, sc,
            [salary_gross |-> f.salary_gross, pension_balances |-> f.pension_balances,
             gross |-> 0, employee |-> 0, employer |-> 0], year), LAMBDA sal :
    Let(fast_income_grow(f.rental_gross, sc.rental_growth_rate,
                         sc.rental_start_year, sc.rental_end_year, year), LAMBDA rental_gross :
    LET rental_income_gross == fast_income_total(rental_gross, sc.rental_start_year,
                                                 sc.rental_end_year, year)
    IN
    Let(fast_income_grow(f.gift_gross, sc.gift_growth_rate,
                         sc.gift_start_year, sc.gift_end_year, year), LAMBDA gift_gross :
    LET gift_income_total == fast_income_total(gift_gross, sc.gift_start_year,
                                               sc.gift_end_year, year)
        \* tax
        taxable_salary == Max(0, sal.gross - sal.employee)
    IN
    Let(fast_calculate_income_tax(taxable_salary), LAMBDA income_tax :
    LET ni_paid == fast_calculate_ni(sal.gross)
        salary_net == sal.gross - income_tax - ni_paid - sal.employee
    IN
    Let(fast_calculate_income_tax(taxable_salary + rental_income_gross)
        - fast_calculate_income_tax(taxable_salary), LAMBDA rental_income_tax :
    LET rental_income_net == rental_income_gross - rental_income_tax
    IN
    \* mortgage
    Let(IF sc.has_mortgage /\ f.mortgage_balance > 0
        THEN step_mortgage(f.mortgage_balance, sc.mortgage_annual_interest_rate,
                           sc.mortgage_monthly_payment)
        ELSE <<f.mortgage_balance, 0>>, LAMBDA mort :
    LET mortgage_payment == mort[2]
        \* expenses and child costs
        expense_amounts == [e \in 1..Len(f.expense_amounts) |->
                               IF sc.expense_is_inflation_linked[e] = 1
                               THEN f.expense_amounts[e]
                                    + Pct(f.expense_amounts[e], asm.inflation_rate)
                               ELSE f.expense_amounts[e]]
        child_total == SumSeq([p \in 1..n_people |->
                          IF /\ sc.people_is_child[p] = 1
                             /\ year - sc.people_birth_years[p] < sc.people_leaves_household_age[p]
                          THEN f.child_costs[p] ELSE 0])
        child_costs == [p \in 1..n_people |->
                           IF sc.people_is_child[p] = 1
                           THEN f.child_costs[p] + Pct(f.child_costs[p], asm.inflation_rate)
                           ELSE f.child_costs[p]]
        expense_total == SumSeq(f.expense_amounts) + child_total
        \* state pension
        n_eligible == Cardinality({p \in 1..n_people :
                          year - sc.people_birth_years[p] >= sc.people_state_pension_ages[p]})
        state_pension_income == n_eligible * f.state_pension
        extra_retirement_spend == IF is_all_retired THEN sc.annual_spend_target ELSE 0
        total_outflows == expense_total + mortgage_payment + extra_retirement_spend
        emergency_target == IF total_outflows > 0
                            THEN MulDiv(total_outflows, asm.emergency_fund_months, 12)
                            ELSE 0
    IN
    \* cash inflows and outflows
    Let([f.asset_balances EXCEPT ![cash_idx] =
            @ + salary_net + rental_income_net + gift_income_total
              + state_pension_income - total_outflows], LAMBDA bal1 :
    Let([asset_balances |-> bal1, asset_cost_bases |-> f.asset_cost_bases,
         pension_balances |-> sal.pension_balances,
         shortfall |-> emergency_target - bal1[cash_idx],
         cgt_allowance_remaining |-> asm.cgt_annual_allowance,
         cgt_paid |-> 0, pension_income_net |-> 0, pension_income_tax |-> 0,
         gains |-> 0, visited |-> <<>>, clamped |-> FALSE], LAMBDA st0 :
    \* shortfall pass, with the clamp of cash at 0
    Let(IF bal1[cash_idx] < emergency_target
        THEN Let(fast_shortfall_loop(1, sc, order, st0, cash_idx, year,
                                     state_pension_income), LAMBDA r :
             IF r.asset_balances[cash_idx] < 0
             THEN [r EXCEPT !.asset_balances[cash_idx] = 0, !.clamped = TRUE] ELSE r)
        ELSE st0, LAMBDA st1 :
    \* investment pass
    Let(fast_invest(sc, st1.asset_balances, st1.asset_cost_bases, cash_idx,
                    emergency_target), LAMBDA inv :
    \* growth
    Let([a \in 1..Len(inv.asset_balances) |->
            Pct(inv.asset_balances[a], asset_row[a])], LAMBDA asset_inv :
    Let([a \in 1..Len(inv.asset_balances) |-> inv.asset_balances[a] + asset_inv[a]], LAMBDA bal3 :
    Let([i \in 1..Len(st1.pension_balances) |->
            Pct(st1.pension_balances[i], pension_row[i])], LAMBDA pen_inv :
    Let([i \in 1..Len(st1.pension_balances) |-> st1.pension_balances[i] + pen_inv[i]],
        LAMBDA pens3 :
    \* totals
    LET pension_balance == SumSeq(pens3)
        isa_balance  == SumSeq([a \in 1..Len(bal3) |->
                                   IF sc.asset_types[a] = 1 THEN bal3[a] ELSE 0])
        cash_balance == SumSeq([a \in 1..Len(bal3) |->
                                   IF sc.asset_types[a] = 0 THEN bal3[a] ELSE 0])
        total_assets == SumSeq(bal3) + pension_balance
        total_liabilities == mort[1]
        income_tax_paid == income_tax + rental_income_tax + st1.pension_income_tax
                           + st1.cgt_paid
    IN  [f |-> [asset_balances   |-> bal3,
                asset_cost_bases |-> inv.asset_cost_bases,
                pension_balances |-> pens3,
                mortgage_balance |-> mort[1],
                salary_gross     |-> sal.salary_gross,
                rental_gross     |-> rental_gross,
                gift_gross       |-> gift_gross,
                expense_amounts  |-> expense_amounts,
                state_pension    |-> f.state_pension + Pct(f.state_pension, asm.inflation_rate),
                child_costs      |-> child_costs],
         trace |-> [visited |-> st1.visited,
                    unmet |-> st1.shortfall,
                    emergency_target |-> emergency_target,
                    cash_before |-> st1.asset_balances[cash_idx],
                    cash_after |-> inv.asset_balances[cash_idx],
                    invested |-> [a \in 1..Len(bal1) |->
                                     IF a = cash_idx THEN 0
                                     ELSE inv.asset_balances[a] - st1.asset_balances[a]],
                    salaries |-> [s \in 1..Len(f.salary_gross) |->
                                     [person |-> sc.salary_person_idx[s],
                                      before |-> f.salary_gross[s],
                                      after  |-> sal.salary_gross[s]]],
                    rentals |-> [i \in 1..Len(rental_gross) |->
                                    [before |-> f.rental_gross[i], after |-> rental_gross[i]]],
                    gifts |-> [i \in 1..Len(gift_gross) |->
                                  [before |-> f.gift_gross[i], after |-> gift_gross[i]]],
                    employee |-> sal.employee,
                    credited |-> SumSeq(sal.pension_balances) - SumSeq(f.pension_balances),
                    salary_tax |-> income_tax,
                    rental_gross |-> rental_income_gross,
                    rental_tax |-> rental_income_tax,
                    expenses |-> f.expense_amounts,
                    children |-> child_total,
                    assets |-> [a \in 1..Len(bal3) |->
                                   [start      |-> f.asset_balances[a],
                                    pre_pass   |-> bal1[a],
                                    post_pass  |-> st1.asset_balances[a],
                                    pre_growth |-> inv.asset_balances[a],
                                    after      |-> bal3[a],
                                    rate       |-> asset_row[a]]],
                    pensions |-> [i \in 1..Len(pens3) |->
                                     [key       |-> sc.pension_keys[i],
                                      start     |-> f.pension_balances[i],
                                      pre_pass  |-> sal.pension_balances[i],
                                      post_pass |-> st1.pension_balances[i],
                                      after     |-> pens3[i],
                                      rate      |-> pension_row[i]]],
                    cgt_paid |-> st1.cgt_paid,
                    gains |-> st1.gains,
                    cgt_allowance |-> st0.cgt_allowance_remaining,
                    pension_tax |-> st1.pension_income_tax,
                    pension_net |-> st1.pension_income_net,
                    clamped |-> st1.clamped],
         row |-> [net_worth |-> total_assets - total_liabilities,
                  salary_gross |-> sal.gross,
                  salary_net |-> salary_net,
                  rental_income |-> rental_income_net,
                  gift_income |-> gift_income_total,
                  pension_income |-> st1.pension_income_net,
                  state_pension_income |-> state_pension_income,
                  investment_returns |-> SumSeq(asset_inv) + SumSeq(pen_inv),
                  total_income |-> salary_net + rental_income_net + gift_income_total
                                   + st1.pension_income_net + state_pension_income,
                  total_expenses |-> total_outflows,
                  mortgage_payment |-> mortgage_payment,
                  pension_contributions |-> sal.employee + sal.employer,
                  fun_fund |-> extra_retirement_spend,
                  income_tax_paid |-> income_tax_paid,
                  ni_paid |-> ni_paid,
                  total_tax |-> income_tax_paid + ni_paid,
                  isa_balance |-> isa_balance,
                  pension_balance |-> pension_balance,
                  cash_balance |-> cash_balance,
                  total_assets |-> total_assets,
                  mortgage_balance |-> mort[1],
                  total_liabilities |-> total_liabilities,
                  mortgage_paid_off |-> IF mort[1] <= 0 THEN 1 ELSE 0,
                  is_depleted |-> IF total_assets <= 0 THEN 1 ELSE 0]]))))))))))))))

---------------------------------------------------------------------------
(* Inputs: scenarios and returns tensors *)

\* the number of simulated years of a scenario: end_year - start_year + 1
NYears == 2

\* the number of iterations of a returns tensor and of run_monte_carlo
Iterations == 2

\* the number of patterns the cells of a returns tensor are filled from
NPatterns == 2

\* the first simulated year of every scenario of this model
StartYear == 2030

\* SimulationAssumptions with its default values
SimulationAssumptions ==
    [inflation_rate |-> 2, isa_annual_limit |-> Pounds(20000),
     state_pension_annual |-> Pounds(11500), cgt_annual_allowance |-> Pounds(3000),
     cgt_rate |-> 10, emergency_fund_months |-> 6, pension_access_age |-> 55]

\* PersonEntity(...) for an adult and for a child
PersonEntity(key, birth_year, planned_retirement_age, state_pension_age) ==
    [key |-> key, birth_year |-> birth_year,
     planned_retirement_age |-> planned_retirement_age,
     state_pension_age |-> state_pension_age,
     is_child |-> FALSE, annual_cost |-> 0, leaves_household_age |-> 18]

ChildEntity(key, birth_year, annual_cost) ==
    [key |-> key, birth_year |-> birth_year,
     planned_retirement_age |-> None, state_pension_age |-> None,
     is_child |-> TRUE, annual_cost |-> annual_cost, leaves_household_age |-> 18]

\* SalaryIncome(...)
SalaryIncome(gross_annual, annual_growth_rate, employee_pension_pct, employer_pension_pct, start_year, end_year) ==
    [gross_annual |-> gross_annual, annual_growth_rate |-> annual_growth_rate,
     employee_pension_pct |-> employee_pension_pct,
     employer_pension_pct |-> employer_pension_pct,
     start_year |-> start_year, end_year |-> end_year,
     salary_gross |-> 0, pension_contributions |-> 0]

\* RentalIncome(...) and GiftIncome(...)
OtherIncome(gross_annual, annual_growth_rate, start_year, end_year) ==
    [gross_annual |-> gross_annual, annual_growth_rate |-> annual_growth_rate,
     start_year |-> start_year, end_year |-> end_year, income_gross |-> 0]

\* PensionPot(balance=...)
PensionPot(balance) ==
    [balance |-> balance, growth_rate_mean |-> 5, growth_rate_std |-> 10, annual_return |-> 0, investment_return |-> 0,
     contributions |-> 0, withdrawals |-> 0]

\* AssetAccount(...)
AssetAccount(name, asset_type, withdrawal_priority, balance, annual_contribution, cost_basis, growth_rate_mean, growth_rate_std) ==
    [name |-> name, asset_type |-> asset_type, withdrawal_priority |-> withdrawal_priority,
     balance |-> balance, annual_contribution |-> annual_contribution,
     cost_basis |-> cost_basis,
     growth_rate_mean |-> growth_rate_mean, growth_rate_std |-> growth_rate_std,
     investment_return |-> 0, contribution_made |-> 0, withdrawals |-> 0, deposits |-> 0]

\* ExpenseItem(...)
ExpenseItem(annual_amount, is_inflation_linked) ==
    [annual_amount |-> annual_amount, is_inflation_linked |-> is_inflation_linked,
     annual_spend |-> 0]

\* MortgageAccount(...) with all four required fields
MortgageAccount(balance, annual_interest_rate, monthly_payment, months_remaining) ==
    [balance |-> balance, annual_interest_rate |-> annual_interest_rate,
     monthly_payment |-> monthly_payment, months_remaining |-> months_remaining,
     interest_paid |-> 0, principal_paid |-> 0, payment_made |-> 0]

\* SimulationScenario(...): the years are StartYear .. StartYear + NYears - 1
SimulationScenario(people, salary_by_person, pension_by_person, rental_incomes, gift_incomes, assets, mortgage, expenses, annual_spend_target, pension_withdrawal_priority) ==
    [people |-> people, salary_by_person |-> salary_by_person,
     pension_by_person |-> pension_by_person,
     rental_incomes |-> rental_incomes, gift_incomes |-> gift_incomes,
     assets |-> assets, mortgage |-> mortgage, expenses |-> expenses,
     annual_spend_target |-> annual_spend_target,
     pension_withdrawal_priority |-> pension_withdrawal_priority,
     start_year |-> StartYear, end_year |-> StartYear + NYears - 1,
     assumptions |-> SimulationAssumptions]

\* one working adult: salary, rental and gift income, a pension, cash and an ISA
Worker ==
    SimulationScenario(
        <<PersonEntity("p1", 1990, Some(65), Some(67))>>,
        <<[key |-> "p1", value |-> <<SalaryIncome(Pounds(40000), 3, 5, 3, None, None)>>]>>,
        <<[key |-> "p1", value |-> PensionPot(Pounds(50000))]>>,
        <<OtherIncome(Pounds(6000), 2, None, None)>>,
        <<OtherIncome(Pounds(1000), 0, Some(StartYear + 1), None)>>,
        <<AssetAccount("Cash", "CASH", 0, Pounds(10000), 0, Pounds(10000), 0, 0),
          AssetAccount("ISA", "ISA", 10, Pounds(20000), 0, Pounds(20000), 5, 10)>>,
        None, <<ExpenseItem(Pounds(20000), TRUE)>>, 0, 20)

\* the same household with a dependent child that has an annual cost
Family ==
    [Worker EXCEPT !.people = Append(@, ChildEntity("p3", 2025, Pounds(5000)))]

\* one retired adult living off a GIA, an ISA and a pension of equal priority;
\* the scenario lists no CASH asset
Retired ==
    SimulationScenario(
        <<PersonEntity("p1", 1960, Some(65), Some(67))>>,
        <<>>,
        <<[key |-> "p1", value |-> PensionPot(Pounds(300000))]>>,
        <<>>, <<>>,
        <<AssetAccount("Stocks", "GIA", 5, Pounds(100000), 0, Pounds(60000), 5, 10),
          AssetAccount("Bonds", "ISA", 5, Pounds(50000), 0, Pounds(50000), 5, 10)>>,
        None, <<ExpenseItem(Pounds(30000), TRUE)>>, Pounds(10000), 5)

\* a working adult with a mortgage that the monthly payment clears within NYears
Mortgaged ==
    [Worker EXCEPT !.mortgage =
        Some(MortgageAccount(Pounds(20000), 4, Pounds(1200), 12 * NYears))]

\* nothing owned, nothing earned, positive expenses
Destitute ==
    SimulationScenario(
        <<PersonEntity("p1", 1990, Some(65), Some(67))>>,
        <<>>, <<>>, <<>>, <<>>, <<>>,
        None, <<ExpenseItem(Pounds(10000), TRUE)>>, 0, 0)

\* two adults stored in the order p2, p1: one salary has ended before the first
\* year, the other earns more than the household spends; two GIAs with
\* contribution caps and an ISA
Couple ==
    SimulationScenario(
        <<PersonEntity("p2", 1985, Some(60), Some(67)),
          PersonEntity("p1", 1980, None, Some(67))>>,
        <<[key |-> "p2", value |-> <<SalaryIncome(Pounds(90000), 2, 4, 4, None, None)>>],
          [key |-> "p1", value |->
              <<SalaryIncome(Pounds(30000), 0, 5, 5, None, Some(StartYear - 1))>>]>>,
        <<[key |-> "p2", value |-> PensionPot(Pounds(80000))],
          [key |-> "p1", value |-> PensionPot(Pounds(40000))]>>,
        <<>>, <<>>,
        <<AssetAccount("Zeta", "GIA", 30, Pounds(5000), Pounds(4000), Pounds(4000), 5, 10),
          AssetAccount("Cash", "CASH", 0, Pounds(30000), 0, Pounds(30000), 0, 0),
          AssetAccount("Alpha", "GIA", 30, Pounds(8000), Pounds(4000), Pounds(8000), 5, 10),
          AssetAccount("ISA", "ISA", 40, Pounds(1000), Pounds(6000), Pounds(1000), 5, 10)>>,
        None, <<ExpenseItem(Pounds(25000), FALSE)>>, 0, 30)

\* two adults and a child without a cost: p1 works in the first year and is
\* retired from the second, p2 is retired throughout and still has a salary on
\* the books; the household has a discretionary spend target
Retiring ==
    SimulationScenario(
        <<PersonEntity("p1", StartYear - 64, Some(65), Some(67)),
          PersonEntity("p2", StartYear - 70, Some(65), Some(67)),
          ChildEntity("p3", StartYear - 5, 0)>>,
        <<[key |-> "p1", value |-> <<SalaryIncome(Pounds(50000), 3, 5, 3, None, None)>>],
          [key |-> "p2", value |-> <<SalaryIncome(Pounds(20000), 2, 5, 3, None, None)>>]>>,
        <<[key |-> "p1", value |-> PensionPot(Pounds(200000))],
          [key |-> "p2", value |-> PensionPot(Pounds(100000))]>>,
        <<>>, <<>>,
        <<AssetAccount("Cash", "CASH", 0, Pounds(20000), 0, Pounds(20000), 0, 0),
          AssetAccount("ISA", "ISA", 10, Pounds(30000), 0, Pounds(30000), 5, 10)>>,
        None, <<ExpenseItem(Pounds(30000), TRUE)>>, Pounds(8000), 20)

\* the working adult with two ISAs: the one listed first has no contribution
\* cap, the one listed second has a cap of 5,000
Saver ==
    [Worker EXCEPT !.assets =
        <<AssetAccount("Cash", "CASH", 0, Pounds(10000), 0, Pounds(10000), 0, 0),
          AssetAccount("Zeta", "ISA", 10, Pounds(20000), 0, Pounds(20000), 5, 10),
          AssetAccount("Alpha", "ISA", 10, Pounds(5000), Pounds(5000), Pounds(5000), 5, 10)>>]

\* a household that lives off its savings: two retired adults over the pension
\* access age (p1, p2), an adult below it (p3) and a child (p4), each with a
\* pension pot, and a pot stored under a key that names no person (p9); two
\* GIAs that hold gains, then the pension slot, then an ISA, by priority
Drawdown ==
    SimulationScenario(
        <<PersonEntity("p1", StartYear - 60, Some(58), Some(67)),
          PersonEntity("p2", StartYear - 62, Some(60), Some(67)),
          PersonEntity("p3", StartYear - 40, Some(65), Some(67)),
          ChildEntity("p4", StartYear - 5, 0)>>,
        <<>>,
        <<[key |-> "p1", value |-> PensionPot(Pounds(200000))],
          [key |-> "p2", value |-> PensionPot(Pounds(100000))],
          [key |-> "p3", value |-> PensionPot(Pounds(80000))],
          [key |-> "p4", value |-> PensionPot(Pounds(10000))],
          [key |-> "p9", value |-> PensionPot(Pounds(50000))]>>,
        <<>>, <<>>,
        <<AssetAccount("Cash", "CASH", 0, Pounds(10000), 0, Pounds(10000), 0, 0),
          AssetAccount("Zeta", "GIA", 30, Pounds(100000), 0, Pounds(20000), 5, 10),
          AssetAccount("Alpha", "GIA", 30, Pounds(5000), 0, Pounds(1000), 5, 10),
          AssetAccount("Bonds", "ISA", 10, Pounds(30000), 0, Pounds(30000), 5, 10)>>,
        None, <<ExpenseItem(Pounds(40000), TRUE)>>, 0, 20)

\* the scenarios of this model
Scenarios == <<Worker, Family, Retired, Mortgaged, Destitute, Couple, Retiring, Saver, Drawdown>>

\* annual returns in percent that the normal draws of a tensor are taken from;
\* the draws are not clipped, so a return below -100% is among them
ReturnValues == <<5, -150, 0, 20>>

\* the draw of rng.normal for one cell under one seed
NormalDraw(seed, it, y, col) ==
    ReturnValues[((seed + it + 2 * y + 3 * col) % Len(ReturnValues)) + 1]

\* sorted(list(scenario.pension_by_person.keys()))
sorted_pension_keys(scn) ==
    SortStable(LAMBDA x, y : StrRank(x) < StrRank(y),
               [i \in 1..Len(scn.pension_by_person) |-> scn.pension_by_person[i].key])

\* rng.normal(loc, scale) for one cell: exactly loc when scale is 0
normal(loc, scale, seed, it, y, col) ==
    IF scale = 0 THEN loc ELSE NormalDraw(seed, it, y, col)

\* ReturnsMatrix(...): years, asset_returns[it][y][a], pension_keys, pension_returns[it][y][p];
\* the cells are drawn for the assets and the pension pots the tensor is generated for
ReturnsMatrix(years, assets, pension_keys, pots, iterations, seed) ==
    [years |-> years,
     asset_returns |->
         [it \in 1..iterations |-> [y \in 1..Len(years) |-> [a \in 1..Len(assets) |->
             normal(assets[a].growth_rate_mean, assets[a].growth_rate_std, seed, it, y, a)]]],
     pension_keys |-> pension_keys,
     pension_returns |->
         [it \in 1..iterations |-> [y \in 1..Len(years) |-> [k \in 1..Len(pension_keys) |->
             normal(pots[k].growth_rate_mean, pots[k].growth_rate_std, seed + 1, it, y, k)]]]]

\* ReturnsMatrix.iterations, ReturnsMatrix.n_years and asset_returns.shape[2]
returns_iterations(returns) == Len(returns.asset_returns)

returns_n_years(returns) == Len(returns.asset_returns[1])

returns_n_assets(returns) == Len(returns.asset_returns[1][1])

\* a generator that puts the cash account it adds first instead of last
scenario_assets_for_returns_cash_first(assets) ==
    IF \E i \in 1..Len(assets) : assets[i].asset_type = "CASH"
    THEN assets ELSE <<CashStub>> \o assets

\* _scenario_assets_for_returns: the scenario's assets, plus a cash stub at the
\* end if none is CASH
scenario_assets_for_returns(assets) ==
    IF \E i \in 1..Len(assets) : assets[i].asset_type = "CASH"
    THEN assets ELSE assets \o <<CashStub>>

\* generate_returns_matrix: one column per asset of the run (cash included), one
\* per pension key, one row per simulated year
generate_returns_matrix(scn, iterations, seed) ==
    Let(sorted_pension_keys(scn), LAMBDA keys :
    ReturnsMatrix(
        [y \in 1..(scn.end_year - scn.start_year + 1) |-> scn.start_year + y - 1],
        scenario_assets_for_returns(scn.assets), keys,
        [k \in 1..Len(keys) |-> Val(DictGet(scn.pension_by_person, keys[k]))],
        iterations, seed))

\* the scenario a mismatched tensor was generated for: the scenario used now
\* with one more year, one more asset, its last listed asset missing, or one more
\* pension
scenario_of_tensor(scn, shape) ==
    CASE shape = "long"  -> [scn EXCEPT !.end_year = @ + 1]
      [] shape = "wide"  ->
             [scn EXCEPT !.assets = Append(run_assets(@),
                  AssetAccount("Zeta", "GIA", 1, Pounds(1000), 0, Pounds(1000), 5, 10))]
      [] shape = "narrow" ->
             [scn EXCEPT !.assets = SubSeq(@, 1, Len(@) - 1)]
      [] shape = "extra_key" ->
             [scn EXCEPT !.pension_by_person =
                  Append(@, [key |-> "p9", value |-> PensionPot(Pounds(1000))])]
      [] OTHER -> scn

\* how the cached tensor relates to the scenario it is used with
TensorShapes == {"match", "long", "wide", "narrow", "extra_key"}

\* the cached tensor handed to the calls
cached_returns(scn, shape, iterations, seed) ==
    generate_returns_matrix(scenario_of_tensor(scn, shape), iterations, seed)

\* FastEngineConfig.enable_numba and the module flag _HAS_NUMBA
Configs ==
    {[enable_numba |-> TRUE,  has_numba |-> TRUE],
     [enable_numba |-> FALSE, has_numba |-> TRUE],
     [enable_numba |-> TRUE,  has_numba |-> FALSE]}

\* _should_use_numba
should_use_numba(config) == config.enable_numba /\ config.has_numba

\* the call sequences of a caller: the entry points it invokes, in order
Programs ==
    {<<"run_with_cached_returns", "run_with_cached_returns_fast">>,
     <<"run_with_cached_returns_fast", "run_with_cached_returns_fast">>,
     <<"run_monte_carlo">>}

---------------------------------------------------------------------------
(* Per-run working state of the reference engine *)

\* a run that works on the scenario's own objects: the entity objects are not
\* cloned, only the containers are new (alias = TRUE)
clone_entities_shared(scn) ==
    Let(run_assets(scn.assets), LAMBDA assets :
    [w |-> [salary_by_person  |-> scn.salary_by_person,
            pension_by_person |-> scn.pension_by_person,
            rental_incomes    |-> scn.rental_incomes,
            gift_incomes      |-> scn.gift_incomes,
            assets            |-> assets,
            mortgage          |-> scn.mortgage,
            expenses          |-> scn.expenses,
            current_state_pension_annual |-> scn.assumptions.state_pension_annual,
            withdrawal_order  |->
                ref_withdrawal_order(assets, scn.pension_withdrawal_priority)],
     alias |-> TRUE])

\* the clones made at the top of _simulate_single_run_to_matrices, the cash
\* account appended when none is listed, withdrawal_order and
\* current_state_pension_annual.  alias tells whether the run's entities are
\* the scenario's own objects; the clones are new objects.
clone_entities(scn) ==
    Let(run_assets(scn.assets), LAMBDA assets :
    [w |-> [salary_by_person  |-> scn.salary_by_person,
            pension_by_person |-> scn.pension_by_person,
            rental_incomes    |-> scn.rental_incomes,
            gift_incomes      |-> scn.gift_incomes,
            assets            |-> assets,
            mortgage          |-> scn.mortgage,
            expenses          |-> scn.expenses,
            current_state_pension_annual |-> scn.assumptions.state_pension_annual,
            withdrawal_order  |->
                ref_withdrawal_order(assets, scn.pension_withdrawal_priority)],
     alias |-> FALSE])

\* the same clones at the top of _simulate_single_run
clone_entities_single_run(scn) ==
    Let(run_assets(scn.assets), LAMBDA assets :
    [w |-> [salary_by_person  |-> scn.salary_by_person,
            pension_by_person |-> scn.pension_by_person,
            rental_incomes    |-> scn.rental_incomes,
            gift_incomes      |-> scn.gift_incomes,
            assets            |-> assets,
            mortgage          |-> scn.mortgage,
            expenses          |-> scn.expenses,
            current_state_pension_annual |-> scn.assumptions.state_pension_annual,
            withdrawal_order  |->
                ref_withdrawal_order(assets, scn.pension_withdrawal_priority)],
     alias |-> FALSE])

\* MortgageAccount(balance=..., annual_interest_rate=..., monthly_payment=...)
\* omits the required months_remaining: the constructor raises TypeError
mortgage_clone_raises(scn) == ~IsNone(scn.mortgage)

\* the asset-axis test of _simulate_single_run_to_matrices
asset_axis_mismatch(scn, returns) ==
    returns_n_assets(returns) # Len(run_assets(scn.assets))

\* the year-span test of run_with_cached_returns
year_span_mismatch(scn, returns) ==
    (scn.end_year - scn.start_year + 1) # returns_n_years(returns)

\* what the scenario's objects hold after a year of a run whose entities are
\* the scenario's own objects (alias): every write of the year lands in them
write_through(scn, run, w) ==
    IF run.alias
    THEN [scn EXCEPT !.salary_by_person  = w.salary_by_person,
                     !.pension_by_person = w.pension_by_person,
                     !.rental_incomes    = w.rental_incomes,
                     !.gift_incomes      = w.gift_incomes,
                     !.assets            = SubSeq(w.assets, 1, Len(scn.assets)),
                     !.mortgage          = w.mortgage,
                     !.expenses          = w.expenses]
    ELSE scn

---------------------------------------------------------------------------
(* Per-call working state of the fast engine *)

\* "Per-iteration state copies" at the top of the prange body: the it_* arrays
\* are new arrays (alias = FALSE), not views of the kernel's arguments
iteration_copies(args) == [f |-> args, alias |-> FALSE]

\* asset_returns[it, y_idx, a_idx] as the compiled kernel reads it: without a
\* bounds check, from the flat position ((it * n_years) + y_idx) * n_cols + a_idx
\* of the buffer.  Inside the buffer that is some cell of the tensor; past its
\* end the value is arbitrary (garbage).
kernel_read(returns, it, y, a, garbage) ==
    Let(returns_iterations(returns), LAMBDA n_it :
    Let(returns_n_years(returns), LAMBDA n_y :
    Let(returns_n_assets(returns), LAMBDA n_cols :
    Let(((it - 1) * n_y + (y - 1)) * n_cols + (a - 1), LAMBDA flat :
    IF flat < n_it * n_y * n_cols
    THEN returns.asset_returns[(flat \div (n_y * n_cols)) + 1]
                              [((flat % (n_y * n_cols)) \div n_cols) + 1]
                              [(flat % n_cols) + 1]
    ELSE garbage))))

\* the rows asset_returns[it, y_idx, 0..n_assets-1] the kernel can read
kernel_asset_rows(returns, it, y, n_assets) ==
    {[a \in 1..n_assets |-> kernel_read(returns, it, y, a, g)] : g \in Range(ReturnValues)}

\* the draws of rng.normal inside _simulate_single_run that this model follows
McDraws == {0, 5}

\* One simulated year of _simulate_single_run: the year of the reference
\* engine with every asset and every pension growing by this year's draw
single_run_year(scn, w, year, draw) ==
    ref_year(scn, w, year,
             [a \in 1..Len(w.assets) |->
                 IF w.assets[a].growth_rate_std = 0 THEN w.assets[a].growth_rate_mean
                 ELSE draw],
             [i \in 1..Len(w.pension_by_person) |-> w.pension_by_person[i].key],
             [i \in 1..Len(w.pension_by_person) |->
                 IF w.pension_by_person[i].value.growth_rate_std = 0
                 THEN w.pension_by_person[i].value.growth_rate_mean ELSE draw])

---------------------------------------------------------------------------
(* State *)

VARIABLES
    scn_id,     \* which scenario the caller built
    shape,      \* how the cached tensor relates to the scenario
    seed,       \* the seed the cached tensor was generated with
    scenario,   \* the SimulationScenario object handed to every call
    returns,    \* the ReturnsMatrix object handed to every call
    config,     \* FastEngineConfig and _HAS_NUMBA
    program,    \* the entry points the caller invokes, in order
    pc,         \* the position of the caller in program
    run,        \* the working state of the call in progress
    results,    \* the outcome of every finished call, in order
    gia_in,     \* arguments of a call of calculate_gia_withdrawal
    gia_out,    \* its result
    tax_in,     \* arguments of the calls of the tax and drawdown functions
    tax_out     \* their results

vars == <<scn_id, shape, seed, scenario, returns, config, program, pc, run, results,
          gia_in, gia_out, tax_in, tax_out>>

inputs == <<scn_id, shape, seed, returns, config, program>>

Idle == [kind |-> "idle"]

\* a finished call: how it ended and, if it returned, what it returned
Outcome(call, status, years, fields) ==
    [call |-> call, status |-> status, years |-> years, fields |-> fields, traces |-> <<>>]

\* a returned result, with what each year of each iteration did to produce it
Returned(call, years, fields, traces) ==
    [Outcome(call, "ok", years, fields) EXCEPT !.traces = traces]

Raised(call, error) == Outcome(call, error, <<>>, <<>>)

\* the call in progress ends with outcome o; the caller moves on
Finish(o) ==
    /\ results' = Append(results, o)
    /\ pc' = pc + 1
    /\ run' = Idle

NoGiaCall == [requested |-> 0, balance |-> 0, cost_basis |-> 0,
              cgt_allowance_remaining |-> 0, cgt_rate |-> 0]

NoTaxCall == [target_net_income |-> 0, other_taxable_income |-> 0, pension_balance |-> 0]

\* no tax or drawdown function has been called
NoTaxResult == [income_tax |-> None, drawdown |-> None, fast_drawdown |-> None]

Init ==
    /\ scn_id \in 1..Len(Scenarios)
    /\ shape \in TensorShapes
    /\ seed \in 1..NPatterns
    /\ scenario = Scenarios[scn_id]
    /\ returns = cached_returns(Scenarios[scn_id], shape, Iterations, seed)
    /\ config \in Configs
    /\ program \in Programs
    \* run_monte_carlo takes neither a tensor nor a FastEngineConfig: its caller
    \* is given one tensor and one configuration
    /\ program = <<"run_monte_carlo">> =>
           shape = "match" /\ seed = 1 /\ should_use_numba(config)
    \* a tensor generated for another scenario is tried with the first scenarios
    \* and one seed
    /\ Scenarios[scn_id] \in {Couple, Retiring, Saver, Drawdown} => shape = "match"
    /\ shape # "match" => seed = 1
    /\ pc = 1
    /\ run = Idle
    /\ results = <<>>
    /\ gia_in = NoGiaCall
    /\ gia_out = None
    /\ tax_in = NoTaxCall
    /\ tax_out = NoTaxResult

---------------------------------------------------------------------------
(* Reference engine: run_with_cached_returns *)

\* the working state of a run of the reference loop entered through entry
ReferenceRun(entry) ==
    [kind |-> "ref", entry |-> entry, it |-> 1, started |-> FALSE, y |-> 0,
     w |-> <<>>, alias |-> FALSE, rows |-> <<>>, out |-> <<>>,
     trace |-> <<>>, traces |-> <<>>]

\* run_with_cached_returns up to its loop over the iterations: the year-span test
EnterReference(entry) ==
    IF year_span_mismatch(scenario, returns)
    THEN Finish(Raised(entry, "ValueError"))
    ELSE /\ run' = ReferenceRun(entry)
         /\ UNCHANGED <<pc, results>>

\* the caller calls run_with_cached_returns(scenario, returns)
RefCall ==
    /\ pc <= Len(program)
    /\ program[pc] = "run_with_cached_returns"
    /\ run.kind = "idle"
    /\ EnterReference("run_with_cached_returns")
    /\ UNCHANGED <<inputs, scenario, gia_in, gia_out, tax_in, tax_out>>

\* _simulate_single_run_to_matrices up to its year loop: clones, asset-axis test
RefIteration ==
    /\ run.kind = "ref"
    /\ ~run.started
    /\ run.it <= returns_iterations(returns)
    /\ IF asset_axis_mismatch(scenario, returns)
       THEN Finish(Raised(run.entry, "ValueError"))
       ELSE IF mortgage_clone_raises(scenario)
       THEN Finish(Raised(run.entry, "TypeError"))
       ELSE \E c \in {clone_entities(scenario)} :
                /\ run' = [run EXCEPT !.started = TRUE, !.y = 0, !.w = c.w,
                                      !.alias = c.alias, !.rows = <<>>]
                /\ UNCHANGED <<pc, results>>
    /\ UNCHANGED <<inputs, scenario, gia_in, gia_out, tax_in, tax_out>>

\* the bookkeeping shared by the year steps: the row is stored, and after the
\* last year the iteration's rows go to the output and the next iteration is due
AfterYear(r, n_years) ==
    IF run.y + 1 = n_years
    THEN [run EXCEPT !.started = FALSE, !.y = 0, !.it = @ + 1, !.w = r.w,
                     !.rows = <<>>, !.out = Append(@, Append(run.rows, r.row)),
                     !.trace = <<>>, !.traces = Append(@, Append(run.trace, r.trace))]
    ELSE [run EXCEPT !.y = @ + 1, !.w = r.w, !.rows = Append(@, r.row),
                     !.trace = Append(@, r.trace)]

\* one pass of the year loop of _simulate_single_run_to_matrices
RefYear ==
    /\ run.kind = "ref"
    /\ run.started
    /\ \E r \in {ref_year(scenario, run.w, scenario.start_year + run.y,
                          returns.asset_returns[run.it][run.y + 1],
                          returns.pension_keys,
                          returns.pension_returns[run.it][run.y + 1])} :
           /\ run' = AfterYear(r, scenario.end_year - scenario.start_year + 1)
           /\ scenario' = write_through(scenario, run, r.w)
    /\ UNCHANGED <<inputs, pc, results, gia_in, gia_out, tax_in, tax_out>>

\* run_with_cached_returns returns SimulationRunMatrices(years, fields)
RefReturn ==
    /\ run.kind = "ref"
    /\ ~run.started
    /\ run.it > returns_iterations(returns)
    /\ Finish(Returned(run.entry,
                       [y \in 1..(scenario.end_year - scenario.start_year + 1) |->
                           scenario.start_year + y - 1],
                       run.out, run.traces))
    /\ UNCHANGED <<inputs, scenario, gia_in, gia_out, tax_in, tax_out>>

---------------------------------------------------------------------------
(* run_monte_carlo *)

\* the caller calls run_monte_carlo(scenario, iterations)
McCall ==
    /\ pc <= Len(program)
    /\ program[pc] = "run_monte_carlo"
    /\ run.kind = "idle"
    /\ run' = [ReferenceRun("run_monte_carlo") EXCEPT !.kind = "mc"]
    /\ UNCHANGED <<inputs, scenario, pc, results, gia_in, gia_out, tax_in, tax_out>>

\* _simulate_single_run up to its year loop
McIteration ==
    /\ run.kind = "mc"
    /\ ~run.started
    /\ run.it <= Iterations
    /\ IF mortgage_clone_raises(scenario)
       THEN Finish(Raised(run.entry, "TypeError"))
       ELSE \E c \in {clone_entities_single_run(scenario)} :
                /\ run' = [run EXCEPT !.started = TRUE, !.y = 0, !.w = c.w,
                                      !.alias = c.alias, !.rows = <<>>]
                /\ UNCHANGED <<pc, results>>
    /\ UNCHANGED <<inputs, scenario, gia_in, gia_out, tax_in, tax_out>>

\* one pass of the year loop of _simulate_single_run
McYear ==
    /\ run.kind = "mc"
    /\ run.started
    /\ \E draw \in McDraws :
         \E r \in {single_run_year(scenario, run.w, scenario.start_year + run.y, draw)} :
             /\ run' = AfterYear(r, scenario.end_year - scenario.start_year + 1)
             /\ scenario' = write_through(scenario, run, r.w)
    /\ UNCHANGED <<inputs, pc, results, gia_in, gia_out, tax_in, tax_out>>

\* run_monte_carlo returns SimulationResults(runs)
McReturn ==
    /\ run.kind = "mc"
    /\ ~run.started
    /\ run.it > Iterations
    /\ Finish(Returned(run.entry,
                       [y \in 1..(scenario.end_year - scenario.start_year + 1) |->
                           scenario.start_year + y - 1],
                       run.out, run.traces))
    /\ UNCHANGED <<inputs, scenario, gia_in, gia_out, tax_in, tax_out>>

---------------------------------------------------------------------------
(* Fast engine: run_with_cached_returns_fast *)

\* the working state of a call of the kernel: every iteration is yet to start
KernelRun(sc) ==
    [kind |-> "fast", entry |-> "run_with_cached_returns_fast",
     sc |-> sc, order |-> fast_withdrawal_order(sc), cash_idx |-> fast_cash_idx(sc),
     n_years |-> returns_n_years(returns),
     args |-> kernel_arguments(sc),
     its |-> [i \in 1..returns_iterations(returns) |->
                 [started |-> FALSE, y |-> 0, f |-> <<>>, alias |-> FALSE, rows |-> <<>>,
                  trace |-> <<>>]]]

\* the caller calls run_with_cached_returns_fast(scenario, returns, config):
\* build_array_scenario, then the fallback to the reference engine or the kernel
FastCall ==
    /\ pc <= Len(program)
    /\ program[pc] = "run_with_cached_returns_fast"
    /\ run.kind = "idle"
    /\ IF build_array_scenario_raises(scenario, returns)
       THEN Finish(Raised("run_with_cached_returns_fast", "KeyError"))
       ELSE IF ~should_use_numba(config)
       THEN EnterReference("run_with_cached_returns_fast")
       ELSE \E array_scenario \in {build_array_scenario(scenario, returns)} :
                /\ run' = KernelRun(array_scenario)
                /\ UNCHANGED <<pc, results>>
    /\ UNCHANGED <<inputs, scenario, gia_in, gia_out, tax_in, tax_out>>

\* iteration i of the prange loop starts: it takes its copies
FastIteration(i) ==
    /\ run.kind = "fast"
    /\ ~run.its[i].started
    /\ \E c \in {iteration_copies(run.args)} :
           run' = [run EXCEPT !.its[i] = [started |-> TRUE, y |-> 0, f |-> c.f,
                                          alias |-> c.alias, rows |-> <<>>,
                                          trace |-> <<>>]]
    /\ UNCHANGED <<inputs, scenario, pc, results, gia_in, gia_out, tax_in, tax_out>>

\* iteration i runs one pass of its year loop; the iterations of prange run in
\* any interleaving
FastYear(i) ==
    /\ run.kind = "fast"
    /\ run.its[i].started
    /\ run.its[i].y < run.n_years
    /\ \E asset_row \in kernel_asset_rows(returns, i, run.its[i].y + 1,
                                          Len(run.sc.asset_types)) :
         \E me \in {run.its[i]} :
         \E r \in {fast_year(run.sc, run.order, run.cash_idx,
                             IF me.alias THEN run.args ELSE me.f,
                             run.sc.years[me.y + 1], asset_row,
                             returns.pension_returns[i][me.y + 1])} :
             run' = [run EXCEPT !.its[i].y = @ + 1,
                                !.its[i].f = r.f,
                                !.its[i].rows = Append(@, r.row),
                                !.its[i].trace = Append(@, r.trace),
                                !.args = IF me.alias THEN r.f ELSE @]
    /\ UNCHANGED <<inputs, scenario, pc, results, gia_in, gia_out, tax_in, tax_out>>

\* every iteration is done: run_with_cached_returns_fast returns
FastReturn ==
    /\ run.kind = "fast"
    /\ \A i \in DOMAIN run.its : run.its[i].started /\ run.its[i].y = run.n_years
    /\ Finish(Returned(run.entry, run.sc.years,
                       [i \in DOMAIN run.its |-> run.its[i].rows],
                       [i \in DOMAIN run.its |-> run.its[i].trace]))
    /\ UNCHANGED <<inputs, scenario, gia_in, gia_out, tax_in, tax_out>>

Next ==
    \/ RefCall
    \/ RefIteration
    \/ RefYear
    \/ RefReturn
    \/ McCall
    \/ McIteration
    \/ McYear
    \/ McReturn
    \/ FastCall
    \/ \E i \in 1..Iterations : FastIteration(i)
    \/ \E i \in 1..Iterations : FastYear(i)
    \/ FastReturn

Spec == Init /\ [][Next]_vars

---------------------------------------------------------------------------
(* A cached session: init_simulation, then recalc_simulation *)

\* what a recalculation request may carry: retirement_age_offset and
\* annual_spend_target (None: keep the base scenario's)
RecalcPayloads ==
    {[retirement_age_offset |-> -5, annual_spend_target |-> None],
     [retirement_age_offset |-> 0, annual_spend_target |-> Some(Pounds(12000))],
     [retirement_age_offset |-> 10, annual_spend_target |-> Some(0)]}

\* the scenario recalc_simulation builds from the cached base scenario: new
\* people with shifted planned retirement ages, a new annual_spend_target, and
\* every other part of the base scenario as it is
recalc_scenario(base, payload) ==
    [base EXCEPT
       !.people = [i \in 1..Len(base.people) |->
                      [base.people[i] EXCEPT !.planned_retirement_age =
                          IF IsNone(@) THEN @
                          ELSE Some(Max(0, Val(@) + payload.retirement_age_offset))]],
       !.annual_spend_target = IF IsNone(payload.annual_spend_target) THEN @
                               ELSE Val(payload.annual_spend_target)]

\* the session: one scenario, the tensor generated for it, one engine setting;
\* init_simulation runs the scenario, recalc_simulation follows
InitSession ==
    /\ scn_id \in 1..Len(Scenarios)
    /\ shape = "match"
    /\ seed \in 1..NPatterns
    /\ scenario = Scenarios[scn_id]
    /\ returns = generate_returns_matrix(Scenarios[scn_id], Iterations, seed)
    /\ config \in Configs
    /\ program = <<"run_with_cached_returns_fast", "recalc_simulation">>
    /\ pc = 1
    /\ run = Idle
    /\ results = <<>>
    /\ gia_in = NoGiaCall
    /\ gia_out = None
    /\ tax_in = NoTaxCall
    /\ tax_out = NoTaxResult

\* recalc_simulation: the scenario is rebuilt from the base scenario and the
\* request, and run_with_cached_returns_fast is called with the cached tensor
RecalcCall ==
    /\ pc <= Len(program)
    /\ program[pc] = "recalc_simulation"
    /\ run.kind = "idle"
    /\ \E payload \in RecalcPayloads :
       \E sim_scenario \in {recalc_scenario(scenario, payload)} :
           /\ scenario' = sim_scenario
           /\ IF build_array_scenario_raises(sim_scenario, returns)
              THEN Finish(Raised("recalc_simulation", "KeyError"))
              ELSE IF ~should_use_numba(config)
              THEN IF year_span_mismatch(sim_scenario, returns)
                   THEN Finish(Raised("recalc_simulation", "ValueError"))
                   ELSE /\ run' = ReferenceRun("recalc_simulation")
                        /\ UNCHANGED <<pc, results>>
              ELSE \E array_scenario \in {build_array_scenario(sim_scenario, returns)} :
                       /\ run' = [KernelRun(array_scenario) EXCEPT !.entry = "recalc_simulation"]
                       /\ UNCHANGED <<pc, results>>
    /\ UNCHANGED <<inputs, gia_in, gia_out, tax_in, tax_out>>

NextSession ==
    \/ FastCall
    \/ \E i \in 1..Iterations : FastIteration(i)
    \/ \E i \in 1..Iterations : FastYear(i)
    \/ FastReturn
    \/ RecalcCall
    \/ RefIteration
    \/ RefYear
    \/ RefReturn

SpecSession == InitSession /\ [][NextSession]_vars

---------------------------------------------------------------------------
(* calculate_gia_withdrawal on its own *)

\* amounts in pence and rates in percent the arguments are drawn from
GiaAmounts == {-5000, 0, 4000, 10000, 25000}

GiaRates == {0, 10, 20}

InitGia ==
    /\ scn_id = 1
    /\ shape = "match"
    /\ seed = 1
    /\ scenario = Scenarios[1]
    /\ returns = cached_returns(Scenarios[1], "match", Iterations, 1)
    /\ config = [enable_numba |-> TRUE, has_numba |-> TRUE]
    /\ program = <<>>
    /\ pc = 1
    /\ run = Idle
    /\ results = <<>>
    /\ gia_in \in [requested : GiaAmounts, balance : GiaAmounts, cost_basis : GiaAmounts,
                   cgt_allowance_remaining : GiaAmounts, cgt_rate : GiaRates]
    /\ gia_out = None
    /\ tax_in = NoTaxCall
    /\ tax_out = NoTaxResult

\* the call calculate_gia_withdrawal(**gia_in)
GiaCall ==
    /\ IsNone(gia_out)
    /\ gia_out' = Some(calculate_gia_withdrawal(gia_in.requested, gia_in.balance,
                           gia_in.cost_basis, gia_in.cgt_allowance_remaining,
                           gia_in.cgt_rate))
    /\ UNCHANGED <<inputs, scenario, pc, run, results, gia_in, tax_in, tax_out>>

NextGia == GiaCall

SpecGia == InitGia /\ [][NextGia]_vars

---------------------------------------------------------------------------
(* The tax and drawdown functions on their own *)

\* target net incomes the calls are made with (pounds)
TaxTargets == {Pounds(-50), 0, Pounds(100), Pounds(20000), Pounds(30000), Pounds(200000),
               Pounds(3000000)}

\* taxable incomes: each band boundary, a penny and a pound either side of it
TaxIncomes ==
    {Pounds(-10), 0, Pounds(9000), Pounds(30000), Pounds(60000), Pounds(200000)}
    \cup UNION {{b - 100, b - 1, b, b + 1, b + 100} :
                   b \in {IncomeTaxBands.personal_allowance, IncomeTaxBands.basic_rate_limit,
                          IncomeTaxBands.higher_rate_limit}}

\* pension balances
TaxBalances == {Pounds(-1), 0, Pounds(20000), Pounds(400000), Pounds(10000000)}

InitTax ==
    /\ scn_id = 1
    /\ shape = "match"
    /\ seed = 1
    /\ scenario = Scenarios[1]
    /\ returns = cached_returns(Scenarios[1], "match", Iterations, 1)
    /\ config = [enable_numba |-> TRUE, has_numba |-> TRUE]
    /\ program = <<>>
    /\ pc = 1
    /\ run = Idle
    /\ results = <<>>
    /\ gia_in = NoGiaCall
    /\ gia_out = None
    /\ tax_in \in [target_net_income : TaxTargets, other_taxable_income : TaxIncomes,
                   pension_balance : TaxBalances]
    /\ tax_out = NoTaxResult

\* the call calculate_income_tax(taxable_income=other_taxable_income, bands=IncomeTaxBands())
IncomeTaxCall ==
    /\ IsNone(tax_out.income_tax)
    /\ tax_out' = [tax_out EXCEPT !.income_tax =
                      Some(calculate_income_tax(tax_in.other_taxable_income, IncomeTaxBands))]
    /\ UNCHANGED <<inputs, scenario, pc, run, results, gia_in, gia_out, tax_in>>

\* the call calculate_pension_drawdown(**tax_in)
DrawdownCall ==
    /\ IsNone(tax_out.drawdown)
    /\ tax_out' = [tax_out EXCEPT !.drawdown =
                      Some(calculate_pension_drawdown(tax_in.target_net_income,
                               tax_in.other_taxable_income, tax_in.pension_balance))]
    /\ UNCHANGED <<inputs, scenario, pc, run, results, gia_in, gia_out, tax_in>>

\* the call _calculate_pension_drawdown(target_net, other_taxable, pension_balance)
FastDrawdownCall ==
    /\ IsNone(tax_out.fast_drawdown)
    /\ tax_out' = [tax_out EXCEPT !.fast_drawdown =
                      Some(fast_calculate_pension_drawdown(tax_in.target_net_income,
                               tax_in.other_taxable_income, tax_in.pension_balance))]
    /\ UNCHANGED <<inputs, scenario, pc, run, results, gia_in, gia_out, tax_in>>

NextTax == IncomeTaxCall \/ DrawdownCall \/ FastDrawdownCall

SpecTax == InitTax /\ [][NextTax]_vars

---------------------------------------------------------------------------
(* Properties *)

\* C10 as stated: for every input of calculate_gia_withdrawal the returned
\* gross_withdrawal is at most balance, and the returned cgt_allowance_remaining
\* is at most the allowance passed in and at least 0.
C10_GiaBoundsEveryInput ==
    ~IsNone(gia_out) =>
        /\ Val(gia_out).gross_withdrawal <= gia_in.balance
        /\ Val(gia_out).cgt_allowance_remaining <= gia_in.cgt_allowance_remaining
        /\ Val(gia_out).cgt_allowance_remaining >= 0

\* C10 for a balance and an allowance that are not negative: gross_withdrawal is
\* at most balance, cgt_allowance_remaining is at most the allowance passed in
\* and at least 0, whatever the requested amount, the cost basis and the rate.
C10_GiaBounds ==
    (~IsNone(gia_out) /\ gia_in.balance >= 0 /\ gia_in.cgt_allowance_remaining >= 0) =>
        /\ Val(gia_out).gross_withdrawal <= gia_in.balance
        /\ Val(gia_out).cgt_allowance_remaining <= gia_in.cgt_allowance_remaining
        /\ Val(gia_out).cgt_allowance_remaining >= 0

\* a request above the balance with gains that use part of the allowance
C10_Witness ==
    /\ ~IsNone(gia_out)
    /\ gia_in.requested > gia_in.balance
    /\ gia_in.balance > gia_in.cost_basis
    /\ gia_in.cost_basis > 0
    /\ gia_in.cgt_allowance_remaining > 0
    /\ Val(gia_out).gross_withdrawal = gia_in.balance
    /\ Val(gia_out).cgt_allowance_used > 0
    /\ Val(gia_out).cgt_allowance_remaining < gia_in.cgt_allowance_remaining

\* the caller has made every call of its program
Done == pc > Len(program)

\* acceleration is enabled and available
Accelerated == should_use_numba(config)

\* the (iteration, year) cells of a returned result
Cells(o) ==
    UNION {{<<it, y>> : y \in 1..Len(o.fields[it])} : it \in 1..Len(o.fields)}

\* the tolerance of the equivalence: one currency unit plus 1% of the reference value
CloseEnough(fast_value, ref_value) ==
    Abs(fast_value - ref_value) <= Pounds(1) + Abs(ref_value) \div 100

\* the caller called the reference entry point and then the fast one
RefThenFast ==
    program = <<"run_with_cached_returns", "run_with_cached_returns_fast">>

\* C1: for a tensor generated for the scenario, whenever the reference entry
\* point returns, the accelerated fast entry point returns the same years and,
\* in every (iteration, year) cell of each of the 24 fields, the same value
\* within the tolerance.
C1_Equivalence ==
    (RefThenFast /\ Done /\ Accelerated /\ shape = "match" /\ results[1].status = "ok") =>
        /\ results[2].status = "ok"
        /\ results[2].years = results[1].years
        /\ Cells(results[2]) = Cells(results[1])
        /\ \A c \in Cells(results[1]) : \A field \in FieldNames :
               CloseEnough(results[2].fields[c[1]][c[2]][field],
                           results[1].fields[c[1]][c[2]][field])

\* C2: with acceleration disabled or its runtime missing, the fast entry point
\* ends exactly as the reference entry point does on the same inputs: the same
\* error, or the same years and the same field arrays.
C2_FallbackIdentity ==
    (RefThenFast /\ Done /\ ~Accelerated) =>
        /\ results[2].status = results[1].status
        /\ results[2].years = results[1].years
        /\ results[2].fields = results[1].fields

\* the tensor's year axis or asset axis does not fit the scenario
ShapeMismatch ==
    \/ year_span_mismatch(Scenarios[scn_id], returns)
    \/ asset_axis_mismatch(Scenarios[scn_id], returns)

\* C3: when the tensor's year axis or asset axis does not fit the scenario,
\* run_with_cached_returns and the accelerated run_with_cached_returns_fast
\* both end with an error; neither returns a result.
C3_ShapeMismatchRefused ==
    \A k \in 1..Len(results) :
        (/\ ShapeMismatch
         /\ \/ results[k].call = "run_with_cached_returns"
            \/ results[k].call = "run_with_cached_returns_fast" /\ Accelerated)
        => results[k].status # "ok"

\* C4: two calls of the fast entry point in succession with the same scenario
\* and the same tensor end the same way and return the same years and fields.
C4_FastTwiceIdentical ==
    (program = <<"run_with_cached_returns_fast", "run_with_cached_returns_fast">> /\ Done) =>
        results[1] = results[2]

\* asset_returns[i, y, a] as read by the kernel lies in asset_returns[i, :, :]
ReadsOwnSlice(i, y, a) ==
    LET n_y    == returns_n_years(returns)
        n_cols == returns_n_assets(returns)
        flat   == ((i - 1) * n_y + (y - 1)) * n_cols + (a - 1)
    IN  (i - 1) * n_y * n_cols <= flat /\ flat < i * n_y * n_cols

\* the rows iteration i produces for its first n years when it runs alone,
\* from the kernel's arguments as they were handed over
RECURSIVE AloneFrom(_, _, _, _, _)
AloneFrom(sc, f, i, y, n) ==
    IF y > n THEN <<>>
    ELSE Let(fast_withdrawal_order(sc), LAMBDA order :
         Let(fast_year(sc, order, fast_cash_idx(sc), f, sc.years[y],
                       [a \in 1..Len(sc.asset_types) |-> kernel_read(returns, i, y, a, 0)],
                       returns.pension_returns[i][y]), LAMBDA r :
         Let(r.f, LAMBDA after :
         <<r.row>> \o AloneFrom(sc, after, i, y + 1, n))))

AloneRows(i, n) == AloneFrom(run.sc, kernel_arguments(run.sc), i, 1, n)

\* C5: in the kernel, whatever the interleaving of the iterations, iteration i
\* reads only its own slice of the tensor and the rows it has written are the
\* rows it writes when it runs alone.
C5_IterationsIndependent ==
    run.kind = "fast" =>
        \A i \in DOMAIN run.its :
            run.its[i].started =>
                /\ \A y \in 1..run.its[i].y : \A a \in 1..Len(run.sc.asset_types) :
                       ReadsOwnSlice(i, y, a)
                /\ run.its[i].rows = AloneRows(i, run.its[i].y)

\* the inputs as the caller built them
OriginalScenario == Scenarios[scn_id]

OriginalReturns == cached_returns(Scenarios[scn_id], shape, Iterations, seed)

\* C6: at every point of every call of run_monte_carlo, run_with_cached_returns
\* and run_with_cached_returns_fast (so also after it returned) the scenario's
\* entities and the tensor's entries hold the values the caller built them
\* with, and every iteration starts from those values.
C6_InputsUnchanged ==
    /\ scenario = OriginalScenario
    /\ returns = OriginalReturns
    /\ (run.kind \in {"ref", "mc"} /\ run.started /\ run.y = 0) =>
           run.w = clone_entities(OriginalScenario).w
    /\ run.kind = "fast" =>
           \A i \in DOMAIN run.its :
               (run.its[i].started /\ run.its[i].y = 0) =>
                   run.its[i].f = kernel_arguments(build_array_scenario(OriginalScenario,
                                                                        OriginalReturns))

\* the sum of the asset and pension balances of a scenario
ScenarioWealth(scn) ==
    SumSeq(MapSeq(LAMBDA a : a.balance, scn.assets))
    + SumSeq(MapSeq(LAMBDA e : e.value.balance, scn.pension_by_person))

\* both cached-returns entry points have returned results in which the
\* household's wealth moved away from the scenario's, and the scenario still
\* holds its original balances
C6_Witness ==
    /\ RefThenFast /\ Done /\ Accelerated
    /\ results[1].status = "ok" /\ results[2].status = "ok"
    /\ \A k \in 1..2 :
           results[k].fields[Iterations][NYears].total_assets # ScenarioWealth(OriginalScenario)
    /\ ScenarioWealth(scenario) = ScenarioWealth(OriginalScenario)

\* the balances of the run in progress, as they stand after its last finished year
RunBalances ==
    CASE run.kind \in {"ref", "mc"} /\ run.started /\ run.y > 0 ->
             MapSeq(LAMBDA a : a.balance, run.w.assets)
             \o MapSeq(LAMBDA e : e.value.balance, run.w.pension_by_person)
      [] run.kind = "fast" ->
             Flatten([i \in DOMAIN run.its |->
                 IF run.its[i].started /\ run.its[i].y > 0
                 THEN run.its[i].f.asset_balances \o run.its[i].f.pension_balances
                 ELSE <<>>])
      [] OTHER -> <<>>

\* C7: at the end of every simulated year of every iteration every asset
\* balance, the cash account included, and every pension balance is >= 0.
C7_BalancesNonNegative ==
    \A k \in 1..Len(RunBalances) : RunBalances[k] >= 0

\* the scenario has a mortgage whose monthly payment clears it within its years
AmortizingMortgage(scn) ==
    /\ ~IsNone(scn.mortgage)
    /\ step_mortgage(Val(scn.mortgage).balance, Val(scn.mortgage).annual_interest_rate,
                     Val(scn.mortgage).monthly_payment)[1]
           < Val(scn.mortgage).balance
    /\ LET m == Val(scn.mortgage)
           n == scn.end_year - scn.start_year + 1
       IN  m.monthly_payment * 12 * n >= m.balance + Pct(m.balance, m.annual_interest_rate) * n

\* what C8 asks of the rows of one iteration
MortgageClears(rows) ==
    /\ rows[Len(rows)].mortgage_balance = 0
    /\ \A y \in 1..Len(rows) :
           /\ rows[y].mortgage_balance >= 0
           /\ rows[y].mortgage_balance = 0 => rows[y].mortgage_paid_off = 1
           /\ \A z \in (y + 1)..Len(rows) :
                  rows[y].mortgage_balance = 0 =>
                      /\ rows[z].mortgage_paid_off = 1
                      /\ rows[z].mortgage_payment = 0

\* C8: for a scenario whose mortgage the monthly payment clears within its
\* years, and a tensor generated for it, every cached-returns run completes and
\* in every iteration mortgage_balance reaches 0, is never negative,
\* mortgage_paid_off is 1 from then on and mortgage_payment is 0 afterwards.
C8_MortgageAmortizes ==
    \A k \in 1..Len(results) :
        (AmortizingMortgage(OriginalScenario) /\ shape = "match") =>
            /\ results[k].status = "ok"
            /\ \A it \in 1..Len(results[k].fields) : MortgageClears(results[k].fields[it])

\* zero balances in every asset and pension, no income, no mortgage, positive expenses
ZeroEverything(scn) ==
    /\ \A i \in 1..Len(scn.assets) : scn.assets[i].balance = 0
    /\ \A i \in 1..Len(scn.pension_by_person) : scn.pension_by_person[i].value.balance = 0
    /\ scn.salary_by_person = <<>> /\ scn.rental_incomes = <<>> /\ scn.gift_incomes = <<>>
    /\ \A i \in 1..Len(scn.people) :
           \A y \in 0..NYears : ~is_state_pension_eligible_in_year(scn.people[i], scn.start_year + y)
    /\ IsNone(scn.mortgage)
    /\ SumSeq(MapSeq(LAMBDA e : e.annual_amount, scn.expenses)) > 0

C11_IncomeTaxShape ==
    ~IsNone(tax_out.income_tax) =>
        LET income == tax_in.other_taxable_income
            tax    == Val(tax_out.income_tax)
        IN  /\ income <= Pounds(12570) => tax = 0
            /\ income = Pounds(50270) => tax = Pounds(7540)
            /\ \A smaller \in TaxIncomes :
                  smaller <= income =>
                      LET less == calculate_income_tax(smaller, IncomeTaxBands)
                      IN  less <= tax /\ tax - less <= income - smaller

\* the tax of an income one penny above the basic rate limit has been computed
C11_Witness ==
    /\ ~IsNone(tax_out.income_tax)
    /\ tax_in.other_taxable_income = Pounds(50270) + 1
    /\ Val(tax_out.income_tax) = Pounds(7540)

\* the net proceeds of a gross pension withdrawal: the gross less the tax the
\* taxable 75% of it adds to the tax of the other income
NetOfGross(gross, other_taxable_income) ==
    gross - (calculate_income_tax(other_taxable_income + (gross - gross \div 4), IncomeTaxBands)
             - calculate_income_tax(other_taxable_income, IncomeTaxBands))

\* the rounding of the drawdown solve in pence: the solve divides up to four times
Rounding == 2

\* C12: for a positive target, a non-negative other income and a positive balance,
\* calculate_pension_drawdown returns a gross withdrawal g <= pension_balance with
\* tax_free_amount 25% of g, taxable_amount 75% of g, tax_paid the tax the taxable
\* amount adds to the tax of the other income and net_income = g - tax_paid; the
\* net income is the target when a gross within the balance yields the target, and
\* otherwise g is the balance and the net income is below the target.
C12_DrawdownSolves ==
    (/\ ~IsNone(tax_out.drawdown)
     /\ tax_in.target_net_income > 0
     /\ tax_in.other_taxable_income >= 0
     /\ tax_in.pension_balance > 0) =>
        LET d      == Val(tax_out.drawdown)
            g      == d.gross_withdrawal
            other  == tax_in.other_taxable_income
            target == tax_in.target_net_income
        IN  /\ g <= tax_in.pension_balance
            /\ Abs(d.tax_free_amount - g \div 4) <= 1
            /\ Abs(d.taxable_amount - (g - g \div 4)) <= 1
            /\ d.tax_paid = calculate_income_tax(other + d.taxable_amount, IncomeTaxBands)
                            - calculate_income_tax(other, IncomeTaxBands)
            /\ d.net_income = g - d.tax_paid
            /\ IF NetOfGross(tax_in.pension_balance, other) >= target
               THEN Abs(d.net_income - target) <= Rounding
               ELSE g = tax_in.pension_balance /\ d.net_income < target

\* a target of 200,000 met from a balance of 400,000: the withdrawal reaches into
\* the additional rate band and stays below the balance
C12_Witness ==
    /\ ~IsNone(tax_out.drawdown)
    /\ tax_in.target_net_income = Pounds(200000)
    /\ tax_in.other_taxable_income = Pounds(9000)
    /\ tax_in.pension_balance = Pounds(400000)
    /\ Val(tax_out.drawdown).gross_withdrawal < tax_in.pension_balance
    /\ Val(tax_out.drawdown).tax_paid > 0
    /\ Abs(Val(tax_out.drawdown).net_income - Pounds(200000)) <= Rounding

\* C13: for every target, other income and balance, the gross withdrawal, the tax
\* and the net income of the bisection of the fast engine and of the closed-form
\* inversion of the reference engine differ by no more than one currency unit.
C13_BisectionAgrees ==
    (~IsNone(tax_out.drawdown) /\ ~IsNone(tax_out.fast_drawdown)) =>
        LET ref  == Val(tax_out.drawdown)
            fast == Val(tax_out.fast_drawdown)
        IN  /\ Abs(fast.gross - ref.gross_withdrawal) <= Pounds(1)
            /\ Abs(fast.tax - ref.tax_paid) <= Pounds(1)
            /\ Abs(fast.net - ref.net_income) <= Pounds(1)

\* the result of a call of one of the two cached-returns entry points
CachedReturnsCall(o) ==
    o.call \in {"run_with_cached_returns", "run_with_cached_returns_fast"}

\* C14: whenever one of the two cached-returns entry points returns, the years
\* are start_year..end_year of the scenario in ascending order, there is one row
\* per iteration of the tensor and one column per year, every cell holds the
\* same 24 named fields, and mortgage_paid_off and is_depleted hold 0 or 1.
C14_ResultShape ==
    \A k \in 1..Len(results) :
        (CachedReturnsCall(results[k]) /\ results[k].status = "ok") =>
            LET o == results[k]
                n == OriginalScenario.end_year - OriginalScenario.start_year + 1
            IN  /\ o.years = [y \in 1..n |-> OriginalScenario.start_year + y - 1]
                /\ Len(o.fields) = returns_iterations(returns)
                /\ Cardinality(FieldNames) = 24
                /\ \A it \in 1..Len(o.fields) :
                      /\ Len(o.fields[it]) = n
                      /\ \A y \in 1..Len(o.fields[it]) :
                            /\ DOMAIN o.fields[it][y] = FieldNames
                            /\ o.fields[it][y].mortgage_paid_off \in {0, 1}
                            /\ o.fields[it][y].is_depleted \in {0, 1}

\* the (result, iteration, year) cells of the results returned so far
ResultCells ==
    UNION {{<<k, c[1], c[2]>> : c \in Cells(results[k])} :
              k \in {j \in 1..Len(results) : results[j].status = "ok"}}

RowOf(c) == results[c[1]].fields[c[2]][c[3]]

TraceOf(c) == results[c[1]].traces[c[2]][c[3]]

YearOf(c) == results[c[1]].years[c[3]]

\* the person's age in the year is at least their planned retirement age
ReachedRetirement(person, year) ==
    /\ ~IsNone(person.planned_retirement_age)
    /\ year - person.birth_year >= Val(person.planned_retirement_age)

\* the salaries of the scenario: for each person in order, the person's salaries
Salaries == salary_rows(OriginalScenario)

\* every person who has a salary has reached retirement in the year
AllSalariedRetired(year) ==
    \A s \in 1..Len(Salaries) :
        ReachedRetirement(OriginalScenario.people[Salaries[s].person_idx], year)

\* the most the salaries of the people who have not reached retirement can add
\* to salary_gross and to the pension contributions in a year
WorkingSalaryGross(trace, year) ==
    SumSeq([s \in 1..Len(Salaries) |->
        IF ReachedRetirement(OriginalScenario.people[Salaries[s].person_idx], year)
        THEN 0 ELSE trace.salaries[s].after])

WorkingContributions(trace, year) ==
    SumSeq([s \in 1..Len(Salaries) |->
        IF ReachedRetirement(OriginalScenario.people[Salaries[s].person_idx], year)
        THEN 0
        ELSE Pct(trace.salaries[s].after, Salaries[s].salary.employee_pension_pct)
             + Pct(trace.salaries[s].after, Salaries[s].salary.employer_pension_pct)])

\* C15: in every simulated year of every engine, a salary of a person who has
\* reached their planned retirement age does not grow and adds nothing to
\* salary_gross or to the pension contributions; salary_gross is 0 in a year in
\* which every salaried person has reached retirement, and in every later year.
C15_RetiredSalariesStop ==
    \A c \in ResultCells :
        LET year  == YearOf(c)
            trace == TraceOf(c)
        IN  /\ Len(trace.salaries) = Len(Salaries)
            /\ \A s \in 1..Len(Salaries) :
                  /\ trace.salaries[s].person = Salaries[s].person_idx
                  /\ ReachedRetirement(OriginalScenario.people[Salaries[s].person_idx], year)
                         => trace.salaries[s].after = trace.salaries[s].before
            /\ RowOf(c).salary_gross <= WorkingSalaryGross(trace, year)
            /\ RowOf(c).pension_contributions <= WorkingContributions(trace, year)
            /\ AllSalariedRetired(year) =>
                  \A later \in ResultCells :
                      (later[1] = c[1] /\ later[2] = c[2] /\ later[3] >= c[3])
                          => RowOf(later).salary_gross = 0

\* both cached-returns engines have returned for the scenario Retiring: in the
\* first year p1 earns while the retired p2 adds nothing, in the second year
\* p1 has retired and salary_gross is 0
C15_Witness ==
    /\ RefThenFast /\ Done /\ Accelerated
    /\ OriginalScenario = Retiring
    /\ \A k \in 1..2 :
          /\ results[k].status = "ok"
          /\ ~AllSalariedRetired(results[k].years[1])
          /\ AllSalariedRetired(results[k].years[2])
          /\ results[k].fields[1][1].salary_gross > 0
          /\ results[k].fields[1][1].salary_gross = results[k].traces[1][1].salaries[1].after
          /\ results[k].traces[1][1].salaries[2].after > 0
          /\ results[k].fields[1][2].salary_gross = 0
          /\ results[k].fields[1][2].pension_contributions = 0

\* the scenario has an adult and every adult has reached retirement in the year
AllAdultsRetired(year) ==
    LET people == OriginalScenario.people
        adults == {i \in 1..Len(people) : ~people[i].is_child}
    IN  /\ adults # {}
        /\ \A i \in adults : ReachedRetirement(people[i], year)

\* C16: in every simulated year of every engine, fun_fund is annual_spend_target
\* when the scenario has an adult and every adult has reached their planned
\* retirement age in the year, and 0 otherwise; children do not count.
C16_FunFundWhenAllAdultsRetired ==
    \A c \in ResultCells :
        RowOf(c).fun_fund = IF AllAdultsRetired(YearOf(c))
                            THEN OriginalScenario.annual_spend_target ELSE 0

\* the assets of a run of the scenario, and the withdrawal sources: the indices
\* of the assets that are not cash accounts, and 0 for the pension slot
RunAssets == run_assets(OriginalScenario.assets)

WithdrawalSources == {i \in 1..Len(RunAssets) : RunAssets[i].asset_type # "CASH"} \cup {0}

SourcePriority(source) ==
    IF source = 0 THEN OriginalScenario.pension_withdrawal_priority
    ELSE RunAssets[source].withdrawal_priority

\* source a has to come before source b: a higher withdrawal priority, or two
\* assets of the same priority with a's name first
ComesBefore(a, b) ==
    \/ SourcePriority(a) > SourcePriority(b)
    \/ /\ a # 0 /\ b # 0
       /\ SourcePriority(a) = SourcePriority(b)
       /\ StrRank(lower(RunAssets[a].name)) < StrRank(lower(RunAssets[b].name))

\* the result was produced by the year loop of the reference engine
ByReferenceEngine(o) ==
    \/ o.call \in {"run_with_cached_returns", "run_monte_carlo"}
    \/ o.call = "run_with_cached_returns_fast" /\ ~Accelerated

\* the sources a shortfall pass reached, in order
Visited(trace) == [n \in 1..Len(trace.visited) |-> trace.visited[n].source]

IsPrefix(s, t) == Len(s) <= Len(t) /\ s = SubSeq(t, 1, Len(s))

\* C17: in every year of the reference engine the shortfall pass reaches only
\* non-cash assets and the pension slot, each at most once, by withdrawal
\* priority descending and, for assets of equal priority, by name ascending, and
\* skips none; the passes of a run follow one order; a source is reached only
\* while the remaining shortfall is positive, and the pass ends before the end of
\* the order only when the remaining shortfall is <= 0.
C17_ReferenceWithdrawalOrder ==
    \A c \in ResultCells :
        ByReferenceEngine(results[c[1]]) =>
            LET v == Visited(TraceOf(c))
            IN  /\ \A n \in 1..Len(v) :
                      /\ v[n] \in WithdrawalSources
                      /\ TraceOf(c).visited[n].shortfall > 0
                      /\ \A m \in 1..(n - 1) : v[m] # v[n] /\ ~ComesBefore(v[n], v[m])
                      /\ \A source \in WithdrawalSources :
                             ComesBefore(source, v[n]) => \E m \in 1..(n - 1) : v[m] = source
                /\ Len(v) < Cardinality(WithdrawalSources) => TraceOf(c).unmet <= 0
                /\ \A d \in ResultCells :
                      d[1] = c[1] => IsPrefix(v, Visited(TraceOf(d)))
                                     \/ IsPrefix(Visited(TraceOf(d)), v)

\* a year of the reference engine for the scenario Retired in which the pass
\* reached the ISA "Bonds" and then the pension slot and stopped there, before
\* the GIA "Stocks" of the same priority
C17_Witness ==
    \E c \in ResultCells :
        /\ results[c[1]].call = "run_with_cached_returns"
        /\ OriginalScenario = Retired
        /\ Visited(TraceOf(c)) = <<2, 0>>
        /\ RunAssets[2].name = "Bonds"
        /\ TraceOf(c).unmet <= 0

\* C18: for a tensor generated for the scenario, in every (iteration, year) cell
\* the shortfall pass of the accelerated kernel reaches the same sources in the
\* same order as the shortfall pass of the reference engine.
C18_SameSourcesVisited ==
    (RefThenFast /\ Done /\ Accelerated /\ shape = "match" /\ results[1].status = "ok") =>
        /\ results[2].status = "ok"
        /\ \A i \in 1..Len(results[1].traces) : \A y \in 1..Len(results[1].traces[i]) :
               Visited(results[2].traces[i][y]) = Visited(results[1].traces[i][y])

\* the accounts of one type, and the order of the investment pass within a
\* type: the larger contribution cap first, then the name
AccountsOf(type) == {a \in 1..Len(RunAssets) : RunAssets[a].asset_type = type}

Cap(a) == RunAssets[a].annual_contribution

InvestedBefore(a, b) ==
    \/ Cap(a) > Cap(b)
    \/ Cap(a) = Cap(b) /\ StrRank(lower(RunAssets[a].name)) < StrRank(lower(RunAssets[b].name))

\* the account received its full capped amount in the pass
Filled(trace, a) == Cap(a) > 0 /\ trace.invested[a] = Cap(a)

IsaDeposits(trace) == SumSeq([a \in 1..Len(RunAssets) |-> IF RunAssets[a].asset_type = "ISA" THEN trace.invested[a] ELSE 0])

\* C19: in every year of either engine an ISA or GIA account receives money in
\* the investment pass only if every account of its type that is earlier in the
\* order (cap descending, then name) received its full cap, and a GIA account
\* receives money only if the ISA accounts could take no more: each received its
\* full cap, or together they received the ISA annual limit.
C19_InvestmentOrder ==
    \A c \in ResultCells :
        LET trace == TraceOf(c)
        IN  /\ \A type \in {"ISA", "GIA"} : \A a \in AccountsOf(type) : \A b \in AccountsOf(type) :
                   (InvestedBefore(a, b) /\ trace.invested[b] > 0) => Filled(trace, a)
            /\ \A b \in AccountsOf("GIA") :
                   trace.invested[b] > 0 =>
                       \/ \A a \in AccountsOf("ISA") : Filled(trace, a)
                       \/ IsaDeposits(trace) = OriginalScenario.assumptions.isa_annual_limit

Deposits(trace) == SumSeq(trace.invested)

\* C20: in every year of either engine the ISA accounts together receive at
\* most the ISA annual limit, no account receives a negative amount or, when its
\* contribution cap is positive, more than that cap, and the investment pass
\* takes from cash exactly what it deposits and leaves cash at or above the
\* emergency-fund target, or untouched when it was already below it.
C20_InvestmentLimits ==
    \A c \in ResultCells :
        LET trace == TraceOf(c)
        IN  /\ IsaDeposits(trace) <= OriginalScenario.assumptions.isa_annual_limit
            /\ \A a \in 1..Len(RunAssets) :
                   /\ trace.invested[a] >= 0
                   /\ Cap(a) > 0 => trace.invested[a] <= Cap(a)
                   /\ RunAssets[a].asset_type \notin {"ISA", "GIA"} => trace.invested[a] = 0
            /\ trace.cash_after = trace.cash_before - Deposits(trace)
            /\ Deposits(trace) > 0 => trace.cash_after >= trace.emergency_target
            /\ Deposits(trace) = 0 => trace.cash_after = trace.cash_before

\* a year for the scenario Saver in which the reference engine had more cash
\* than the emergency-fund target, gave the ISA "Alpha" exactly its cap and the
\* rest to the ISA "Zeta", and left cash exactly at the target
C20_Witness ==
    \E c \in ResultCells :
        /\ ByReferenceEngine(results[c[1]])
        /\ OriginalScenario = Saver
        /\ TraceOf(c).cash_before > TraceOf(c).emergency_target
        /\ TraceOf(c).invested[3] = Cap(3) /\ Cap(3) > 0
        /\ TraceOf(c).invested[2] > 0
        /\ TraceOf(c).cash_after = TraceOf(c).emergency_target

\* the year lies in the inclusive [start_year, end_year] window of the income;
\* a bound that is not set does not limit the window
InWindow(income, year) ==
    /\ IsNone(income.start_year) \/ year >= Val(income.start_year)
    /\ IsNone(income.end_year) \/ year <= Val(income.end_year)

\* the salary is paid in the year: its owner has not reached retirement and the
\* year lies in its window
Paid(s, year) ==
    /\ ~ReachedRetirement(OriginalScenario.people[Salaries[s].person_idx], year)
    /\ InWindow(Salaries[s].salary, year)

PaidSalaryGross(trace, year) ==
    SumSeq([s \in 1..Len(Salaries) |-> IF Paid(s, year) THEN trace.salaries[s].after ELSE 0])

PaidEmployeeContributions(trace, year) ==
    SumSeq([s \in 1..Len(Salaries) |->
        IF Paid(s, year)
        THEN Pct(trace.salaries[s].after, Salaries[s].salary.employee_pension_pct) ELSE 0])

PaidEmployerContributions(trace, year) ==
    SumSeq([s \in 1..Len(Salaries) |->
        IF Paid(s, year)
        THEN Pct(trace.salaries[s].after, Salaries[s].salary.employer_pension_pct) ELSE 0])

\* the amounts after the year's step of the incomes whose window holds the year
InWindowTotal(incomes, amounts, year) ==
    SumSeq([i \in 1..Len(incomes) |-> IF InWindow(incomes[i], year) THEN amounts[i].after ELSE 0])

\* C21: in every year of the reference engine a salary, rental or gift income
\* whose window does not hold the year does not grow and adds nothing to the
\* year's gross salary, rental or gift income, and a salary outside its window
\* adds nothing to the pension contributions reported, to the employee
\* contribution deducted from net salary, or to the amount credited to the pots.
C21_OutOfWindowIncomeInert ==
    \A c \in ResultCells :
        ByReferenceEngine(results[c[1]]) =>
            LET year  == YearOf(c)
                trace == TraceOf(c)
                scn   == OriginalScenario
            IN  /\ \A s \in 1..Len(Salaries) :
                       ~InWindow(Salaries[s].salary, year)
                           => trace.salaries[s].after = trace.salaries[s].before
                /\ \A i \in 1..Len(scn.rental_incomes) :
                       ~InWindow(scn.rental_incomes[i], year)
                           => trace.rentals[i].after = trace.rentals[i].before
                /\ \A i \in 1..Len(scn.gift_incomes) :
                       ~InWindow(scn.gift_incomes[i], year)
                           => trace.gifts[i].after = trace.gifts[i].before
                /\ RowOf(c).salary_gross = PaidSalaryGross(trace, year)
                /\ trace.rental_gross = InWindowTotal(scn.rental_incomes, trace.rentals, year)
                /\ RowOf(c).gift_income = InWindowTotal(scn.gift_incomes, trace.gifts, year)
                /\ trace.employee = PaidEmployeeContributions(trace, year)
                /\ RowOf(c).pension_contributions =
                       PaidEmployeeContributions(trace, year)
                       + PaidEmployerContributions(trace, year)
                /\ trace.credited <= PaidEmployeeContributions(trace, year)
                                     + PaidEmployerContributions(trace, year)

\* income tax and Class 1 National Insurance with the default bands
IncomeTax(income) == calculate_income_tax(Max(0, income), IncomeTaxBands)

NationalInsurance(earnings) == calculate_ni_class1(earnings, NationalInsuranceBands)

\* the year's salary income tax is on gross salary minus the employee pension
\* contribution, and the rental income tax is the marginal tax on top of it
SalaryAndRentalIncomeTax(row, trace) ==
    LET base == row.salary_gross - trace.employee
    IN  /\ trace.salary_tax = IncomeTax(base)
        /\ trace.rental_tax = IncomeTax(base + trace.rental_gross) - IncomeTax(base)

\* C22 (as stated): in every year of either engine ni_paid is the National
\* Insurance on gross salary minus the employee pension contribution, the base
\* of the salary income tax, and rental income is taxed only as the marginal
\* income tax tax(base + rental) - tax(base).
C22_NiOnTaxableSalary ==
    \A c \in ResultCells :
        /\ SalaryAndRentalIncomeTax(RowOf(c), TraceOf(c))
        /\ RowOf(c).ni_paid = NationalInsurance(RowOf(c).salary_gross - TraceOf(c).employee)

\* C22 (amended): in every year of either engine ni_paid is the National
\* Insurance on the whole gross salary, before the employee pension contribution
\* and without the rental income; the salary income tax is on gross salary minus
\* the employee pension contribution, and rental income is taxed only as the
\* marginal income tax tax(base + rental) - tax(base).
C22_NiOnGrossSalary ==
    \A c \in ResultCells :
        /\ SalaryAndRentalIncomeTax(RowOf(c), TraceOf(c))
        /\ RowOf(c).ni_paid = NationalInsurance(RowOf(c).salary_gross)

\* both engines have returned for the scenario Worker: in the first year there
\* is a salary with an employee contribution that lowers the National Insurance
\* band amount, and a rental income that is taxed
C22_Witness ==
    /\ RefThenFast /\ Done /\ Accelerated
    /\ OriginalScenario = Worker
    /\ \A k \in 1..2 :
          /\ results[k].status = "ok"
          /\ results[k].traces[1][1].employee > 0
          /\ results[k].traces[1][1].rental_gross > 0
          /\ results[k].traces[1][1].rental_tax > 0
          /\ results[k].fields[1][1].ni_paid > 0
          /\ NationalInsurance(results[k].fields[1][1].salary_gross)
                 # NationalInsurance(results[k].fields[1][1].salary_gross
                                     - results[k].traces[1][1].employee)

\* the trace of the year before the year of cell c in the same iteration
PreviousTrace(c) == results[c[1]].traces[c[2]][c[3] - 1]

\* the return the tensor holds for asset a, and for the pot of a pension key, in
\* the iteration and year of cell c
TensorAssetReturn(c, a) == OriginalReturns.asset_returns[c[2]][c[3]][a]

TensorPensionReturn(c, key) ==
    OriginalReturns.pension_returns[c[2]][c[3]][IndexOf(OriginalReturns.pension_keys, key)]

\* the result was computed from the cached tensor
FromTensor(o) == o.call \in {"run_with_cached_returns", "run_with_cached_returns_fast"}

\* balance * (1 + rate): one application of a year's return
Grown(balance, rate) == balance + Pct(balance, rate)

\* C23: for a tensor generated for the scenario, in every year of either engine
\* every asset and every pension pot starts the year at the balance the year
\* before ended with (the scenario's balance in the first year), is not grown
\* before or during the shortfall and investment passes, and ends the year at
\* (balance after the passes) * (1 + return), the balance after the passes
\* holding the year's contributions and deposits and not the year's
\* withdrawals; the return is the tensor's entry for the asset or pension key,
\* iteration and year; investment_returns is the sum of this year's growth only.
C23_GrowthOnceAfterThePasses ==
    shape = "match" =>
    \A c \in ResultCells :
        LET trace == TraceOf(c)
            first == c[3] = 1
        IN  /\ Len(trace.assets) = Len(RunAssets)
            /\ \A a \in 1..Len(RunAssets) :
                  LET x == trace.assets[a]
                      is_cash == a = primary_cash_index(RunAssets)
                  IN  /\ x.start = IF first THEN RunAssets[a].balance
                                   ELSE PreviousTrace(c).assets[a].after
                      /\ ~is_cash => x.pre_pass = x.start /\ x.post_pass <= x.pre_pass
                      /\ x.pre_growth = IF is_cash THEN x.post_pass - Deposits(trace)
                                        ELSE x.post_pass + trace.invested[a]
                      /\ x.after = Grown(x.pre_growth, x.rate)
                      /\ FromTensor(results[c[1]]) => x.rate = TensorAssetReturn(c, a)
            /\ Len(trace.pensions) = Len(OriginalScenario.pension_by_person)
            /\ \A i \in 1..Len(trace.pensions) :
                  LET x == trace.pensions[i]
                  IN  /\ x.start = IF first
                                   THEN Val(DictGet(OriginalScenario.pension_by_person, x.key)).balance
                                   ELSE PreviousTrace(c).pensions[i].after
                      /\ x.pre_pass >= x.start
                      /\ x.post_pass <= x.pre_pass
                      /\ x.after = Grown(x.post_pass, x.rate)
                      /\ FromTensor(results[c[1]]) => x.rate = TensorPensionReturn(c, x.key)
            /\ SumSeq([i \in 1..Len(trace.pensions) |->
                          trace.pensions[i].pre_pass - trace.pensions[i].start]) = trace.credited
            /\ RowOf(c).investment_returns =
                   SumSeq([a \in 1..Len(trace.assets) |->
                              trace.assets[a].after - trace.assets[a].pre_growth])
                   + SumSeq([i \in 1..Len(trace.pensions) |->
                                trace.pensions[i].after - trace.pensions[i].post_pass])

\* both engines have returned for one tensor: in one year an account that
\* received a deposit in the investment pass grew by a return other than 0, and
\* in one year an asset the shortfall pass withdrew from, without emptying it,
\* grew by a return other than 0
C23_Witness ==
    /\ RefThenFast /\ Done /\ Accelerated /\ shape = "match"
    /\ \A k \in 1..2 :
          /\ results[k].status = "ok"
          /\ \E c \in ResultCells : \E a \in 1..Len(RunAssets) :
                /\ c[1] = k
                /\ TraceOf(c).invested[a] > 0
                /\ TraceOf(c).assets[a].rate # 0
          /\ \E c \in ResultCells : \E a \in 1..Len(RunAssets) :
                /\ c[1] = k
                /\ TraceOf(c).assets[a].post_pass < TraceOf(c).assets[a].pre_pass
                /\ TraceOf(c).assets[a].rate # 0
                /\ TraceOf(c).assets[a].post_pass > 0

\* the amount after n yearly applications of the inflation rate
RECURSIVE Inflated(_, _)
Inflated(amount, n) ==
    IF n = 0 THEN amount
    ELSE Inflated(amount + Pct(amount, OriginalScenario.assumptions.inflation_rate), n - 1)

\* every expense item is charged, in every year, its amount after the number of
\* inflation steps that growths(year index) gives if it is inflation-linked, and
\* its scenario amount if it is not
ExpensesCharged(growths(_)) ==
    \A c \in ResultCells :
        /\ Len(TraceOf(c).expenses) = Len(OriginalScenario.expenses)
        /\ \A e \in 1..Len(OriginalScenario.expenses) :
               TraceOf(c).expenses[e] =
                   IF OriginalScenario.expenses[e].is_inflation_linked
                   THEN Inflated(OriginalScenario.expenses[e].annual_amount, growths(c[3]))
                   ELSE OriginalScenario.expenses[e].annual_amount

\* C24 (as stated): in both engines an inflation-linked expense is charged in a
\* simulated year the amount after that year's inflation growth, so the first
\* year is charged annual_amount * (1 + inflation); an expense that is not
\* inflation-linked is charged annual_amount in every year.
C24_GrowthThenCharge == ExpensesCharged(LAMBDA y : y)

\* C24 (amended): in both engines an inflation-linked expense is charged in a
\* simulated year the amount before that year's inflation growth: the first year
\* is charged annual_amount, year k is charged annual_amount after k - 1
\* growths; an expense that is not inflation-linked is charged annual_amount in
\* every year.
C24_ChargeThenGrowth == ExpensesCharged(LAMBDA y : y - 1)

\* both engines have returned for the scenario Worker, whose expense is
\* inflation-linked: the first year was charged 20,000 and the second 20,400
C24_Witness ==
    /\ RefThenFast /\ Done /\ Accelerated
    /\ OriginalScenario = Worker
    /\ \A k \in 1..2 :
          /\ results[k].status = "ok"
          /\ results[k].traces[1][1].expenses = <<Pounds(20000)>>
          /\ results[k].traces[1][2].expenses = <<Pounds(20400)>>

\* the owner of the pot stored under key is an adult of the scenario who has
\* reached the pension access age in the year
OwnerCanAccess(key, year) ==
    \E i \in 1..Len(OriginalScenario.people) :
        LET person == OriginalScenario.people[i]
        IN  /\ person.key = key
            /\ ~person.is_child
            /\ year - person.birth_year >= OriginalScenario.assumptions.pension_access_age

\* the pooled balance of the accessible pots before the shortfall pass
PooledBalance(trace, year) ==
    SumSeq([i \in 1..Len(trace.pensions) |->
        IF OwnerCanAccess(trace.pensions[i].key, year) THEN trace.pensions[i].pre_pass ELSE 0])

\* what the shortfall pass took out of the pot
Reduction(pot) == pot.pre_pass - pot.post_pass

\* the gross pension withdrawal of the year's shortfall pass
GrossDrawdown(trace) == trace.pension_net + trace.pension_tax

\* C25: in every year of either engine the shortfall pass leaves unchanged every
\* pot whose owner is a child, is below the pension access age or is no person
\* of the scenario; the gross drawdown is at most the pooled balance of the
\* other pots, each of these is reduced by the gross drawdown times its share
\* of the pooled balance and does not go negative, and the reductions sum to
\* the gross drawdown (to within one rounding step per pot).
C25_PooledProRataDrawdown ==
    \A c \in ResultCells :
        LET trace == TraceOf(c)
            year  == YearOf(c)
            pool  == PooledBalance(trace, year)
            gross == GrossDrawdown(trace)
            n     == Len(trace.pensions)
        IN  /\ \A i \in 1..n :
                  ~OwnerCanAccess(trace.pensions[i].key, year) => Reduction(trace.pensions[i]) = 0
            /\ gross >= 0
            /\ gross > 0 =>
                  /\ \E k \in 1..Len(trace.visited) : trace.visited[k].source = 0
                  /\ pool > 0 /\ gross <= pool
                  /\ \A i \in 1..n :
                        OwnerCanAccess(trace.pensions[i].key, year) =>
                            /\ Abs(Reduction(trace.pensions[i])
                                   - MulDiv(gross, trace.pensions[i].pre_pass, pool)) <= Rounding
                            /\ trace.pensions[i].post_pass >= 0
            /\ Abs(SumSeq([i \in 1..n |-> Reduction(trace.pensions[i])]) - gross) <= n * Rounding

\* the year's expenses as charged: the expense items and the costs of dependent children
Expenses(trace) == SumSeq(trace.expenses) + trace.children

\* the asset balances the year ends with, the cash account among them
AssetBalances(trace) == SumSeq([i \in 1..Len(trace.assets) |-> trace.assets[i].after])

NoMortgage == IsNone(OriginalScenario.mortgage)

\* C26: in every output cell of either engine total_assets is the sum of the
\* asset balances plus pension_balance, total_liabilities is mortgage_balance,
\* net_worth is total_assets - total_liabilities, total_tax is income_tax_paid
\* + ni_paid, total_expenses is expenses + mortgage_payment + fun_fund,
\* mortgage_paid_off is set exactly when there is no mortgage or its balance
\* is <= 0, and is_depleted is set exactly when total_assets <= 0.
C26_SnapshotIdentities ==
    \A c \in ResultCells :
        LET row   == RowOf(c)
            trace == TraceOf(c)
        IN  /\ row.total_assets = AssetBalances(trace) + row.pension_balance
            /\ row.total_liabilities = row.mortgage_balance
            /\ row.net_worth = row.total_assets - row.total_liabilities
            /\ row.total_tax = row.income_tax_paid + row.ni_paid
            /\ row.total_expenses = Expenses(trace) + row.mortgage_payment + row.fun_fund
            /\ row.mortgage_paid_off = 1 <=> (NoMortgage \/ row.mortgage_balance <= 0)
            /\ row.is_depleted = 1 <=> row.total_assets <= 0

\* the accelerated kernel has reported, for a scenario with a mortgage, a year
\* with the mortgage outstanding and a year with it paid off, with tax, National
\* Insurance and expenses in both
C26_Witness ==
    /\ ~NoMortgage
    /\ \E c \in ResultCells : RowOf(c).mortgage_balance > 0 /\ RowOf(c).mortgage_paid_off = 0 /\ RowOf(c).mortgage_payment > 0
    /\ \E c \in ResultCells : RowOf(c).mortgage_balance = 0 /\ RowOf(c).mortgage_paid_off = 1
    /\ \A c \in ResultCells : RowOf(c).income_tax_paid > 0 /\ RowOf(c).ni_paid > 0 /\ Expenses(TraceOf(c)) > 0 /\ RowOf(c).is_depleted = 0
    /\ ResultCells # {}

\* the balance the shortfall pass found in, and left in, a withdrawal source:
\* an asset's balance, or for the pension slot (source 0) the pooled balance of
\* the pots whose owner can access them
HeldBefore(trace, year, source) == IF source = 0 THEN PooledBalance(trace, year) ELSE trace.assets[source].pre_pass

HeldAfter(trace, year, source) == IF source = 0 THEN SumSeq([i \in 1..Len(trace.pensions) |-> IF OwnerCanAccess(trace.pensions[i].key, year) THEN trace.pensions[i].post_pass ELSE 0]) ELSE trace.assets[source].post_pass

\* more than a rounding step was taken out of the source
WithdrawnFrom(trace, year, source) == HeldBefore(trace, year, source) - HeldAfter(trace, year, source) > Rounding

\* C27: in every year of either engine, a source the shortfall pass withdrew
\* from (by more than a rounding step) comes after no source that the pass left holding money: every source
\* earlier in the withdrawal order ended the pass with no balance (for the
\* pension slot, no eligible balance).
C27_StrictWithdrawalPriority ==
    \A c \in ResultCells :
        LET trace == TraceOf(c)
            year  == YearOf(c)
            order == Visited(trace)
        IN  \A k \in 1..Len(order) : \A j \in 1..(k - 1) :
                WithdrawnFrom(trace, year, order[k]) => HeldAfter(trace, year, order[j]) <= 0

\* the cash account of the run: the first CASH asset
PrimaryCash == CHOOSE i \in 1..Len(RunAssets) : RunAssets[i].asset_type = "CASH" /\ \A j \in 1..(i - 1) : RunAssets[j].asset_type # "CASH"

\* all asset, cash and pension balances before the shortfall pass and after the investment pass
HeldBeforePasses(trace) == SumSeq([i \in 1..Len(trace.assets) |-> trace.assets[i].pre_pass]) + SumSeq([i \in 1..Len(trace.pensions) |-> trace.pensions[i].pre_pass])

HeldAfterPasses(trace) == SumSeq([i \in 1..Len(trace.assets) |-> trace.assets[i].pre_growth]) + SumSeq([i \in 1..Len(trace.pensions) |-> trace.pensions[i].post_pass])

\* what the shortfall pass paid into cash: the amounts taken out of the assets
\* less CGT, and the net pension income
NetWithdrawn(trace) == SumSeq([i \in 1..Len(trace.assets) |-> IF i = PrimaryCash THEN 0 ELSE trace.assets[i].pre_pass - trace.assets[i].post_pass]) - trace.cgt_paid + trace.pension_net

\* one rounding step for every balance a pass can change
PassRounding(trace) == (Len(trace.assets) + Len(trace.pensions)) * Rounding

\* C28: in every year of either engine in which cash is not clamped to zero, the
\* asset, cash and pension balances after the shortfall and investment passes
\* sum to the sum before them less the CGT and the pension income tax of the
\* shortfall pass; the shortfall pass raises cash by the net amounts withdrawn and
\* leaves it at or below the emergency-fund target (or where it was) to within
\* a rounding step, and the investment pass lowers cash by the amounts deposited.
C28_PassesConserveMoney ==
    \A c \in ResultCells :
        LET trace == TraceOf(c)
            cash  == trace.assets[PrimaryCash]
        IN  ~trace.clamped =>
                /\ Abs(HeldAfterPasses(trace) - (HeldBeforePasses(trace) - trace.cgt_paid - trace.pension_tax)) <= PassRounding(trace)
                /\ cash.post_pass - cash.pre_pass = NetWithdrawn(trace)
                /\ cash.pre_growth = cash.post_pass - Deposits(trace)
                /\ cash.post_pass <= Max(cash.pre_pass, trace.emergency_target) + Rounding

CgtAllowance == OriginalScenario.assumptions.cgt_annual_allowance

\* the gains of the year's GIA withdrawals beyond the annual allowance, which
\* must have been charged CGT
GainsBeyondAllowance(trace) == Max(0, trace.gains - CgtAllowance)

\* C29: in every year of either engine the CGT allowance starts at the full
\* cgt_annual_allowance, every source the shortfall pass reaches finds the
\* allowance the previous one left, never raises it and never leaves it below
\* 0, and CGT is charged on all the year's realised gains beyond the annual
\* allowance, so the gains sheltered never exceed it.
C29_CgtAllowancePerYear ==
    \A c \in ResultCells :
        LET trace   == TraceOf(c)
            visited == trace.visited
        IN  /\ trace.cgt_allowance = CgtAllowance
            /\ \A k \in 1..Len(visited) :
                   /\ visited[k].allowance_before = (IF k = 1 THEN CgtAllowance ELSE visited[k - 1].allowance_after)
                   /\ visited[k].allowance_after <= visited[k].allowance_before
                   /\ visited[k].allowance_after >= 0
            /\ trace.cgt_paid >= Pct(GainsBeyondAllowance(trace), OriginalScenario.assumptions.cgt_rate) - Len(visited) * Rounding

\* both engines have run a first year in which one GIA withdrawal used up the
\* allowance and a second one was charged CGT on all its gains, and a second
\* year that started with the full allowance and lowered it again
C29_Witness ==
    /\ Len(results) = 2
    /\ CgtAllowance > 0
    /\ \A o \in 1..Len(results) :
           /\ results[o].status = "ok"
           /\ Len(results[o].traces[1]) >= 2
           /\ \E it \in 1..Iterations :
                  LET first  == results[o].traces[it][1]
                      second == results[o].traces[it][2]
                  IN  /\ Len(first.visited) >= 2
                      /\ first.visited[1].allowance_before = CgtAllowance
                      /\ first.visited[1].allowance_after = 0
                      /\ first.visited[2].allowance_before = 0
                      /\ first.gains > CgtAllowance
                      /\ first.cgt_paid > 0
                      /\ second.cgt_allowance = CgtAllowance
                      /\ \E k \in 1..Len(second.visited) : second.visited[k].allowance_after < second.visited[k].allowance_before

\* the tensor was not refused: the call neither raised the ValueError of the
\* shape tests nor the KeyError of a pension key the scenario does not have
Accepted(o) == o.status \notin {"ValueError", "KeyError"}

\* the draw generate_returns_matrix made for the asset at position a of the
\* scenario's assets (the cash account it adds included), and for the pot of a key
DrawnForAsset(it, y, a) == normal(RunAssets[a].growth_rate_mean, RunAssets[a].growth_rate_std, seed, it, y, a)

DrawnForPension(it, y, key) == LET keys == sorted_pension_keys(OriginalScenario) k == IndexOf(keys, key) pot == Val(DictGet(OriginalScenario.pension_by_person, key)) IN normal(pot.growth_rate_mean, pot.growth_rate_std, seed + 1, it, y, k)

\* the call applied to every asset and every pension pot, in every iteration
\* and year, the draw generated for it
AppliesTheDraws(o) ==
    \A it \in 1..Len(o.traces) : \A y \in 1..Len(o.traces[it]) :
        LET trace == o.traces[it][y]
        IN  /\ Len(trace.assets) = Len(RunAssets)
            /\ \A a \in 1..Len(trace.assets) : trace.assets[a].rate = DrawnForAsset(it, y, a)
            /\ Len(trace.pensions) = Len(OriginalScenario.pension_by_person)
            /\ \A k \in 1..Len(trace.pensions) : trace.pensions[k].rate = DrawnForPension(it, y, trace.pensions[k].key)

\* only annual_spend_target and planned retirement ages differ from the base scenario
OnlyTargetAndAgesChanged ==
    /\ [scenario EXCEPT !.people = OriginalScenario.people, !.annual_spend_target = OriginalScenario.annual_spend_target] = OriginalScenario
    /\ Len(scenario.people) = Len(OriginalScenario.people)
    /\ \A i \in 1..Len(scenario.people) : [scenario.people[i] EXCEPT !.planned_retirement_age = OriginalScenario.people[i].planned_retirement_age] = OriginalScenario.people[i]

\* C30: in a session the tensor generated for the scenario is accepted by the
\* first run and by the run of the recalculated scenario, which differs from
\* the base scenario in annual_spend_target and planned retirement ages only;
\* the run has one asset column per scenario asset plus the cash account when
\* none is listed, and every run that returns applied to each asset and pension
\* pot the draw generated for it.
C30_GeneratedTensorAccepted ==
    /\ OnlyTargetAndAgesChanged
    /\ returns_n_assets(returns) = Len(RunAssets)
    /\ \A k \in 1..Len(results) :
           /\ Accepted(results[k])
           /\ results[k].status = "ok" => AppliesTheDraws(results[k])

\* a recalculation of a scenario that lists no CASH asset has returned: planned
\* retirement ages or the spend target were changed, the result differs from
\* the first run's, and the cash account is the last column
C30_Witness ==
    /\ Len(results) = 2
    /\ results[1].status = "ok" /\ results[2].status = "ok"
    /\ results[2].call = "recalc_simulation"
    /\ scenario # OriginalScenario
    /\ results[2].fields # results[1].fields
    /\ \A i \in 1..Len(OriginalScenario.assets) : OriginalScenario.assets[i].asset_type # "CASH"
    /\ Len(OriginalScenario.assets) > 0
    /\ Len(results[2].traces[1][1].assets) = Len(OriginalScenario.assets) + 1
    /\ \E it \in 1..Iterations : \E y \in 1..NYears : results[2].traces[it][y].assets[1].rate # 0

====
